---- MODULE Spec2Model ----
(***************************************************************************)
(* A model of the NeuroLens aggregation routes: detection results, the     *)
(* composite cognitive score, trend analysis with the risk-indicator       *)
(* ranking, and the wellness-plan synthesizer.                             *)
(*                                                                         *)
(* The routes compute with JavaScript Numbers.  Numbers are modelled as    *)
(* IEEE-754 binary64 values (sign, 53-bit significand, exponent; NaN),     *)
(* every arithmetic operation rounding its exact result to nearest, ties   *)
(* to even.  Significands are naturals held as little-endian sequences of  *)
(* 15-bit limbs, because TLC's integers are 32 bits wide.                  *)
(***************************************************************************)
EXTENDS Integers, Sequences, FiniteSets, TLC

VARIABLES
  detection_results,  \* table detection_results of the user, oldest row first
  cognitive_scores,   \* table cognitive_scores of the user, oldest row first
  wellness_plans,     \* table wellness_plans of the user, oldest row first
  wearable_data,      \* table wearable_data of the user, oldest row first
  health_metrics,     \* table health_metrics of the user, oldest row first
  submissions,        \* the wearable submissions awaiting a database call
  activity_progress,  \* table activity_progress, oldest row first
  caregiver_relationships,  \* table caregiver_relationships, oldest row first
  caregiver_ids,      \* the number of ids the table has given out
  rateLimit,          \* the rate-limit store of the ML middleware
  admitted,           \* the requests the ML middleware has rate-limited, in order
  now,                \* the clock, in ticks
  request,            \* the latest request
  response            \* the response to it

wearables == <<wearable_data, health_metrics, submissions>>

caregivers == <<caregiver_relationships, caregiver_ids>>

limiter == <<rateLimit, admitted>>

others == <<activity_progress, caregivers, limiter>>

vars == <<detection_results, cognitive_scores, wellness_plans, wearables, others, now,
          request, response>>

(***************************************************************************)
(* Naturals of arbitrary size: <<l1, ..., ln>> is l1 + l2*B + ... with     *)
(* 0 <= li < B and ln # 0; zero is << >>.                                  *)
(***************************************************************************)
LimbBase == 2^15

LimbBits == IF LimbBase = 2^15 THEN 15 ELSE 0

RECURSIVE BTrim(_)
BTrim(a) ==
  IF a = <<>> THEN <<>>
  ELSE IF a[Len(a)] = 0 THEN BTrim(SubSeq(a, 1, Len(a) - 1))
  ELSE a

BFromInt(n) ==
  BTrim(<<n % LimbBase, (n \div LimbBase) % LimbBase, n \div (LimbBase * LimbBase)>>)

RECURSIVE BToInt(_)
BToInt(a) == IF a = <<>> THEN 0 ELSE Head(a) + LimbBase * BToInt(Tail(a))

RECURSIVE BAddC(_, _, _)
BAddC(a, b, c) ==
  IF a = <<>> /\ b = <<>> THEN (IF c = 0 THEN <<>> ELSE <<c>>)
  ELSE LET x == (IF a = <<>> THEN 0 ELSE Head(a))
                + (IF b = <<>> THEN 0 ELSE Head(b)) + c
       IN  <<x % LimbBase>>
             \o BAddC(IF a = <<>> THEN <<>> ELSE Tail(a),
                      IF b = <<>> THEN <<>> ELSE Tail(b), x \div LimbBase)

BAdd(a, b) == BAddC(a, b, 0)

\* a - b for a >= b
RECURSIVE BSubC(_, _, _)
BSubC(a, b, c) ==
  IF a = <<>> THEN <<>>
  ELSE LET x == Head(a) - (IF b = <<>> THEN 0 ELSE Head(b)) - c
       IN  <<(x + LimbBase) % LimbBase>>
             \o BSubC(Tail(a), IF b = <<>> THEN <<>> ELSE Tail(b),
                      IF x < 0 THEN 1 ELSE 0)

BSub(a, b) == BTrim(BSubC(a, b, 0))

\* -1, 0, 1 as a < b, a = b, a > b
RECURSIVE BCmpAt(_, _, _)
BCmpAt(a, b, i) ==
  IF i = 0 THEN 0
  ELSE IF a[i] < b[i] THEN -1
  ELSE IF a[i] > b[i] THEN 1
  ELSE BCmpAt(a, b, i - 1)

BCmp(a, b) ==
  IF Len(a) < Len(b) THEN -1
  ELSE IF Len(a) > Len(b) THEN 1
  ELSE BCmpAt(a, b, Len(a))

\* a * k + c for 0 <= k, c < B
RECURSIVE BMulSmallC(_, _, _)
BMulSmallC(a, k, c) ==
  IF a = <<>> THEN (IF c = 0 THEN <<>> ELSE <<c>>)
  ELSE LET x == Head(a) * k + c
       IN  <<x % LimbBase>> \o BMulSmallC(Tail(a), k, x \div LimbBase)

BMulSmall(a, k) == BTrim(BMulSmallC(a, k, 0))

RECURSIVE BMul(_, _)
BMul(a, b) ==
  IF b = <<>> \/ a = <<>> THEN <<>>
  ELSE BAdd(BMulSmall(a, Head(b)), BTrim(<<0>> \o BMul(a, Tail(b))))

\* <<quotient, remainder>> of a by k, 0 < k <= B; the remainder is an integer
\* the quotient limb k put below the limbs of <<quotient, remainder>>
PushLimb(qr, k) == <<qr[1] \o <<k>>, qr[2]>>

TrimQuotient(qr) == <<BTrim(qr[1]), qr[2]>>

RECURSIVE BDivSmallAt(_, _, _, _)
BDivSmallAt(a, k, i, r) ==
  IF i = 0 THEN <<<<>>, r>>
  ELSE PushLimb(BDivSmallAt(a, k, i - 1, (r * LimbBase + a[i]) % k),
                (r * LimbBase + a[i]) \div k)

BDivSmall(a, k) == TrimQuotient(BDivSmallAt(a, k, Len(a), 0))

Zeros(n) == [i \in 1..n |-> 0]

\* a * 2^n
BShl(a, n) ==
  IF a = <<>> THEN <<>>
  ELSE Zeros(n \div LimbBits) \o BMulSmall(a, 2^(n % LimbBits))

\* floor(a / 2^n)
BShr(a, n) ==
  IF n \div LimbBits >= Len(a) THEN <<>>
  ELSE BDivSmall(SubSeq(a, n \div LimbBits + 1, Len(a)), 2^(n % LimbBits))[1]

IntBitLen(x) == CHOOSE k \in 0..LimbBits : x < 2^k /\ (k = 0 \/ x >= 2^(k - 1))

BBitLen(a) ==
  IF a = <<>> THEN 0 ELSE LimbBits * (Len(a) - 1) + IntBitLen(a[Len(a)])

BOdd(a) == a # <<>> /\ Head(a) % 2 = 1

\* the largest k in lo..hi with d * k <= r (d * lo <= r is given)
RECURSIVE BDigit(_, _, _, _)
BDigit(r, d, lo, hi) ==
  IF lo = hi THEN lo
  ELSE LET mid == (lo + hi + 1) \div 2
       IN  IF BCmp(BMulSmall(d, mid), r) <= 0
           THEN BDigit(r, d, mid, hi)
           ELSE BDigit(r, d, lo, mid - 1)

\* <<quotient, remainder>> of a by d, d # 0: schoolbook long division, one
\* limb of the quotient per step, from the most significant limb of a
RECURSIVE BDivAt(_, _, _, _)
\* the step for limb i: x is the running remainder with limb i brought down,
\* k the quotient limb
BDivLimb(a, d, i, x, k) == PushLimb(BDivAt(a, d, i - 1, BSub(x, BMulSmall(d, k))), k)

BDivDown(a, d, i, x) ==
  IF BCmp(x, d) < 0 THEN PushLimb(BDivAt(a, d, i - 1, x), 0)
  ELSE BDivLimb(a, d, i, x, BDigit(x, d, 1, LimbBase - 1))

BDivAt(a, d, i, r) ==
  IF i = 0 THEN <<<<>>, r>> ELSE BDivDown(a, d, i, BTrim(<<a[i]>> \o r))

BigRemainder(qr) == <<qr[1], BFromInt(qr[2])>>

BDivMod(a, d) ==
  IF Len(d) = 1 THEN BigRemainder(BDivSmall(a, d[1]))
  ELSE TrimQuotient(BDivAt(a, d, Len(a), <<>>))

(***************************************************************************)
(* JavaScript Numbers.  A Number is NaN or (-1)^neg * m * 2^e, where m is  *)
(* zero (with e = 0) or has exactly Precision bits.  The exponent range    *)
(* and the infinities are left out: the routes divide by zero only as 0/0  *)
(* and their values stay far from the largest and smallest doubles.        *)
(***************************************************************************)
Precision == 53

NaN == [nan |-> TRUE, neg |-> FALSE, m |-> <<>>, e |-> 0]

Zero == [nan |-> FALSE, neg |-> FALSE, m |-> <<>>, e |-> 0]

\* n * 2^e rounded to Precision bits, to nearest and ties to even
Finite(neg, m, e) == [nan |-> FALSE, neg |-> neg, m |-> m, e |-> e]

\* q, or q + 1 when the part cut off compares to half a unit of q as c says:
\* above it, or equal to it with q odd
RoundUp(q, c) == IF c > 0 \/ (c = 0 /\ BOdd(q)) THEN BAdd(q, <<1>>) ELSE q

\* rounding up may carry into one bit more than Precision
Carried(neg, up, e) ==
  IF BBitLen(up) > Precision THEN Finite(neg, BShr(up, 1), e + 1)
  ELSE Finite(neg, up, e)

\* q is n without its d low bits
RoundCut(neg, n, q, d, e) ==
  Carried(neg, RoundUp(q, BCmp(BSub(n, BShl(q, d)), BShl(<<1>>, d - 1))), e + d)

\* n has d bits more than Precision
RoundBits(neg, n, d, e) ==
  IF d <= 0 THEN Finite(neg, BShl(n, -d), e + d)
  ELSE RoundCut(neg, n, BShr(n, d), d, e)

RoundBig(neg, n, e) ==
  IF n = <<>> THEN Zero ELSE RoundBits(neg, n, BBitLen(n) - Precision, e)

\* the number of zero limbs at the low end of a # << >>
RECURSIVE LowZeros(_)
LowZeros(a) == IF Head(a) # 0 THEN 0 ELSE 1 + LowZeros(Tail(a))

\* (n / d) * 2^e rounded likewise, d # 0: the quotient is taken to at least
\* two bits more than Precision and a sticky bit records a non-zero remainder
\* twice the quotient, plus one when the remainder is not zero
Sticky(qr) == BAdd(BMulSmall(qr[1], 2), IF qr[2] = <<>> THEN <<>> ELSE <<1>>)

\* the bits to shift a dividend of ln bits by, before a divisor of ld bits
DivShift(ln, ld) == IF Precision + 3 + ld > ln THEN Precision + 3 + ld - ln ELSE 0

RoundQuotient(neg, n, d, s, e) == RoundBig(neg, Sticky(BDivMod(BShl(n, s), d)), e - s - 1)

\* z low zero limbs of the divisor are dropped before dividing
RoundDivBy(neg, n, d, z, e) ==
  RoundQuotient(neg, n, SubSeq(d, z + 1, Len(d)),
                DivShift(BBitLen(n), BBitLen(d) - LimbBits * z), e - LimbBits * z)

RoundDiv(neg, n, d, e) ==
  IF n = <<>> THEN Zero ELSE RoundDivBy(neg, n, d, LowZeros(d), e)

Abs(i) == IF i < 0 THEN -i ELSE i

NumFromInt(i) == RoundBig(i < 0, BFromInt(Abs(i)), 0)

\* the Number nearest to the decimal c / scale (JSON.parse of a literal)
NumFromDecimal(c, scale) == RoundDiv(c < 0, BFromInt(Abs(c)), BFromInt(scale), 0)

\* -1, 0, 1 comparing the magnitudes of two Numbers that are not NaN
MagCmp(x, y) ==
  IF x.m = <<>> \/ y.m = <<>>
  THEN (IF x.m = y.m THEN 0 ELSE IF x.m = <<>> THEN -1 ELSE 1)
  ELSE IF x.e < y.e THEN -1
  ELSE IF x.e > y.e THEN 1
  ELSE BCmp(x.m, y.m)

\* x + y
\* xm and ym are the significands of x and y at the common exponent e, c
\* compares their magnitudes
AddAligned(x, y, xm, ym, e, c) ==
  IF x.neg # y.neg /\ c = 0 THEN Zero
  ELSE RoundBig(IF x.neg = y.neg \/ c > 0 THEN x.neg ELSE y.neg,
                IF x.neg = y.neg THEN BAdd(xm, ym)
                ELSE IF c > 0 THEN BSub(xm, ym) ELSE BSub(ym, xm),
                e)

AddAt(x, y, e) == AddAligned(x, y, BShl(x.m, x.e - e), BShl(y.m, y.e - e), e, MagCmp(x, y))

NumAdd(x, y) ==
  IF x.nan \/ y.nan THEN NaN
  ELSE IF x.m = <<>> THEN y
  ELSE IF y.m = <<>> THEN x
  ELSE AddAt(x, y, IF x.e < y.e THEN x.e ELSE y.e)

NumNeg(x) == IF x.nan \/ x.m = <<>> THEN x ELSE [x EXCEPT !.neg = ~x.neg]

\* x - y
NumSub(x, y) == NumAdd(x, NumNeg(y))

\* x * y
NumMul(x, y) ==
  IF x.nan \/ y.nan THEN NaN
  ELSE RoundBig(x.neg # y.neg, BMul(x.m, y.m), x.e + y.e)

\* x / y; 0 / 0 is NaN
NumDiv(x, y) ==
  IF x.nan \/ y.nan \/ y.m = <<>> THEN NaN
  ELSE RoundDiv(x.neg # y.neg, x.m, y.m, x.e - y.e)

\* Math.abs(x)
MathAbs(x) == IF x.nan THEN x ELSE [x EXCEPT !.neg = FALSE]

\* x < y; false when either is NaN
NumLess(x, y) ==
  IF x.nan \/ y.nan THEN FALSE
  ELSE IF x.neg /\ ~y.neg THEN TRUE
  ELSE IF ~x.neg /\ y.neg THEN FALSE
  ELSE IF x.neg THEN MagCmp(x, y) > 0
  ELSE MagCmp(x, y) < 0

\* x > y
NumGreater(x, y) == NumLess(y, x)

\* x === y, x !== y
NumEq(x, y) == ~x.nan /\ ~y.nan /\ x = y

NumNeq(x, y) == ~NumEq(x, y)

\* floor(n * 2^e + 1/2) for the natural n, as an integer
HalfUp(n, e) ==
  IF e >= 0 THEN BToInt(BShl(n, e))
  ELSE BToInt(BShr(BAdd(n, BShl(<<1>>, -e - 1)), -e))

\* -floor(-(n * 2^e) + 1/2) = ceil(n * 2^e - 1/2)
HalfDown(n, e) ==
  IF e >= 0 THEN BToInt(BShl(n, e))
  ELSE IF BCmp(n, BShl(<<1>>, -e - 1)) <= 0 THEN 0
  ELSE BToInt(BShr(BAdd(BSub(n, BShl(<<1>>, -e - 1)), BSub(BShl(<<1>>, -e), <<1>>)), -e))

\* Math.round(x): the integer nearest to x, a tie going to the larger one
MathRound(x) ==
  IF x.nan THEN "NaN"
  ELSE IF x.neg THEN -HalfDown(x.m, x.e)
  ELSE HalfUp(x.m, x.e)

\* the string "NaN"
FixedNaN == [nan |-> TRUE, neg |-> FALSE, hundredths |-> 0]

\* the string of a decimal with two places: "-" if neg, then hundredths / 100
Fixed(neg, hundredths) == [nan |-> FALSE, neg |-> neg, hundredths |-> hundredths]

\* x.toFixed(2): the sign of x, then the n / 100 nearest to |x|, a tie going
\* to the larger n; "NaN" for NaN
ToFixed2(x) ==
  IF x.nan THEN FixedNaN ELSE Fixed(x.neg, HalfUp(BMulSmall(x.m, 100), x.e))

(***************************************************************************)
(* Rows and queries.  confidence_score is a NUMERIC column: a row holds    *)
(* the decimal, in tenths, and a query hands it to the route as the        *)
(* Number nearest to it.  risk_indicators is the sequence of <<key, value>>*)
(* entries Object.entries yields for the stored object (empty for null);   *)
(* a key is a string and a value the text of a JSON value.                 *)
(***************************************************************************)
Confidence(c) == NumFromDecimal(c, 10)

\* the Numbers of the confidence scores the model stores
ConfidenceOf == [c \in 0..12 |-> Confidence(c)]

\* seq in reverse order
Reverse(seq) == [i \in 1..Len(seq) |-> seq[Len(seq) + 1 - i]]

\* .limit(n)
Limit(seq, n) == IF Len(seq) <= n THEN seq ELSE SubSeq(seq, 1, n)

OfType(rows, type) == SelectSeq(rows, LAMBDA r : r.detection_type = type)

\* (variant: the query without .limit(n))
RecentOfTypeUnlimited(rows, type, n) == Reverse(OfType(rows, type))

\* .eq('detection_type', type).order('created_at', {ascending: false}).limit(n)
RecentOfType(rows, type, n) == Limit(Reverse(OfType(rows, type)), n)

\* items.reduce((sum, item) => sum + item.confidence_score, 0)
RECURSIVE SumConfidence(_)
SumConfidence(items) ==
  IF items = <<>> THEN Zero
  ELSE NumAdd(SumConfidence(SubSeq(items, 1, Len(items) - 1)),
              ConfidenceOf[items[Len(items)].confidence_score])

(***************************************************************************)
(* calculateCognitiveScore                                                 *)
(***************************************************************************)
ScoreLimit == 5

facialWeight == NumFromDecimal(35, 100)

speechWeight == NumFromDecimal(4, 10)

behavioralWeight == NumFromDecimal(25, 100)

Hundred == NumFromInt(100)

ConcernThreshold == NumFromDecimal(6, 10)

\* (variant: the sum is not divided by the number of results)
ChannelAvgUndivided(results) == SumConfidence(results)

\* the average of one channel: 0 when the channel has no results
ChannelAvg(results) ==
  IF Len(results) > 0
  THEN NumDiv(SumConfidence(results), NumFromInt(Len(results)))
  ELSE Zero

WeightedScore(facialAvg, speechAvg, behavioralAvg) ==
  MathRound(NumMul(NumAdd(NumAdd(NumMul(facialAvg, facialWeight),
                                 NumMul(speechAvg, speechWeight)),
                          NumMul(behavioralAvg, behavioralWeight)),
                   Hundred))

\* (variant: the thresholds are inclusive)
HealthStatusInclusive(cognitiveScore) ==
  IF cognitiveScore <= 50 THEN "concerning"
  ELSE IF cognitiveScore <= 70 THEN "moderate"
  ELSE "healthy"

HealthStatus(cognitiveScore) ==
  IF cognitiveScore < 50 THEN "concerning"
  ELSE IF cognitiveScore < 70 THEN "moderate"
  ELSE "healthy"

\* (variant: the averages above the threshold are the concerns)
AreasOfConcernAbove(facialAvg, speechAvg, behavioralAvg) ==
  (IF NumGreater(facialAvg, ConcernThreshold) THEN <<"facial expressions">> ELSE <<>>)
  \o (IF NumGreater(speechAvg, ConcernThreshold) THEN <<"speech patterns">> ELSE <<>>)
  \o (IF NumGreater(behavioralAvg, ConcernThreshold)
      THEN <<"behavioral responses">> ELSE <<>>)

\* (variant: an average equal to the threshold is a concern too)
AreasOfConcernInclusive(facialAvg, speechAvg, behavioralAvg) ==
  (IF ~NumGreater(facialAvg, ConcernThreshold) THEN <<"facial expressions">> ELSE <<>>)
  \o (IF ~NumGreater(speechAvg, ConcernThreshold) THEN <<"speech patterns">> ELSE <<>>)
  \o (IF ~NumGreater(behavioralAvg, ConcernThreshold)
      THEN <<"behavioral responses">> ELSE <<>>)

AreasOfConcern(facialAvg, speechAvg, behavioralAvg) ==
  (IF NumLess(facialAvg, ConcernThreshold) THEN <<"facial expressions">> ELSE <<>>)
  \o (IF NumLess(speechAvg, ConcernThreshold) THEN <<"speech patterns">> ELSE <<>>)
  \o (IF NumLess(behavioralAvg, ConcernThreshold)
      THEN <<"behavioral responses">> ELSE <<>>)

ComponentScore(avg) == MathRound(NumMul(avg, Hundred))

\* fault names the query that fails, if any
\* the object calculateCognitiveScore returns
CognitiveHealth(cognitiveScore, facialAvg, speechAvg, behavioralAvg, at) ==
  [cognitive_score |-> cognitiveScore,
   status |-> HealthStatus(cognitiveScore),
   areas_of_concern |-> AreasOfConcern(facialAvg, speechAvg, behavioralAvg),
   component_scores |-> [facial |-> ComponentScore(facialAvg),
                         speech |-> ComponentScore(speechAvg),
                         behavioral |-> ComponentScore(behavioralAvg)],
   last_updated |-> at]

ScoreOfAverages(facialAvg, speechAvg, behavioralAvg, at) ==
  CognitiveHealth(WeightedScore(facialAvg, speechAvg, behavioralAvg),
                  facialAvg, speechAvg, behavioralAvg, at)

calculateCognitiveScore(rows, fault, at) ==
  IF fault = "results_read"
  THEN [error |-> "Failed to calculate cognitive score"]
  ELSE ScoreOfAverages(ChannelAvg(RecentOfType(rows, "facial", ScoreLimit)),
                       ChannelAvg(RecentOfType(rows, "speech", ScoreLimit)),
                       ChannelAvg(RecentOfType(rows, "behavioral", ScoreLimit)), at)

IsError(r) == "error" \in DOMAIN r

(***************************************************************************)
(* Objects used as maps.  An object is the sequence of its <<key, value>>  *)
(* entries in property order: the keys that are array indices ("0", "1",   *)
(* ...) in ascending numeric order, then the other keys in the order they  *)
(* were added.  Of the array indices the model holds only the one-digit    *)
(* ones.  Keys that name a property of Object.prototype ("constructor",    *)
(* "toString", "__proto__", ...) read as the inherited property until the  *)
(* key is written: ObjectPrototype holds two of them, each a function,     *)
(* as the string it converts to.                                           *)
(***************************************************************************)
ObjectPrototype ==
  [constructor |-> "function Object() { [native code] }",
   toString |-> "function toString() { [native code] }"]

Inherited(key) == key \in DOMAIN ObjectPrototype

Digits == <<"0", "1", "2", "3", "4", "5", "6", "7", "8", "9">>

IsArrayIndex(key) == \E i \in 1..Len(Digits) : Digits[i] = key

ArrayIndex(key) == CHOOSE i \in 1..Len(Digits) : Digits[i] = key

HasKey(obj, key) == \E i \in 1..Len(obj) : obj[i][1] = key

\* obj[key] || 0: an inherited function is truthy
GetOrZero(obj, key) ==
  IF HasKey(obj, key) THEN obj[CHOOSE i \in 1..Len(obj) : obj[i][1] = key][2]
  ELSE IF Inherited(key) THEN ObjectPrototype[key]
  ELSE 0

\* value + 1: a number is added to, a function or a string is joined with
\* "1"; the value under an inherited name is never a number
PlusOne(key, value) == IF Inherited(key) THEN value \o "1" ELSE value + 1

\* Number(value) of a tallied value: such a string is no numeral
ToNumber(key, value) == IF Inherited(key) THEN NaN ELSE NumFromInt(value)

\* where a new key goes: an array index before the first entry that is not a
\* smaller array index, any other key at the end
RECURSIVE KeyPosition(_, _, _)
KeyPosition(obj, key, i) ==
  IF i > Len(obj) THEN i
  ELSE IF ~IsArrayIndex(key) THEN Len(obj) + 1
  ELSE IF IsArrayIndex(obj[i][1]) /\ ArrayIndex(obj[i][1]) < ArrayIndex(key)
  THEN KeyPosition(obj, key, i + 1)
  ELSE i

InsertAt(seq, i, x) == SubSeq(seq, 1, i - 1) \o <<x>> \o SubSeq(seq, i, Len(seq))

\* obj[key] = value
SetKey(obj, key, value) ==
  IF HasKey(obj, key)
  THEN [i \in 1..Len(obj) |-> IF obj[i][1] = key THEN <<key, value>> ELSE obj[i]]
  ELSE InsertAt(obj, KeyPosition(obj, key, 1), <<key, value>>)

\* the JSON values that are falsy
Falsy == {"false", "0", "null", "\"\""}

Truthy(value) == value \notin Falsy

(***************************************************************************)
(* analyzeTrends                                                           *)
(***************************************************************************)
Timeframes == {"day", "week", "month", "year"}

\* the days between startDate and now: a month and a year back depend on
\* the calendar
Lookback(timeframe) ==
  CASE timeframe = "day" -> {1}
    [] timeframe = "week" -> {7}
    [] timeframe = "month" -> 28..31
    [] timeframe = "year" -> {365, 366}
    [] OTHER -> {7}

\* .eq('detection_type', type).gte('created_at', start).lte('created_at', end)
\* .order('created_at', {ascending: true}); rows of one instant keep the
\* order of insertion
TrendWindow(rows, type, start, end) ==
  SelectSeq(rows, LAMBDA r : r.detection_type = type /\ r.created_at >= start
                               /\ r.created_at <= end)

\* reduce(...) / items.length: 0 / 0 for no items
HalfAvg(items) == NumDiv(SumConfidence(items), NumFromInt(Len(items)))

FirstHalf(data) == SubSeq(data, 1, Len(data) \div 2)

SecondHalf(data) == SubSeq(data, Len(data) \div 2 + 1, Len(data))

TrendDirection(firstHalfAvg, secondHalfAvg) ==
  IF NumGreater(secondHalfAvg, firstHalfAvg) THEN "improving"
  ELSE IF NumLess(secondHalfAvg, firstHalfAvg) THEN "declining"
  ELSE "stable"

\* (variant: without Math.abs)
ChangeSigned(firstHalfAvg, secondHalfAvg) ==
  IF NumNeq(firstHalfAvg, Zero)
  THEN NumMul(NumDiv(NumSub(secondHalfAvg, firstHalfAvg), firstHalfAvg), Hundred)
  ELSE Zero

ChangePercentage(firstHalfAvg, secondHalfAvg) ==
  IF NumNeq(firstHalfAvg, Zero)
  THEN MathAbs(NumMul(NumDiv(NumSub(secondHalfAvg, firstHalfAvg), firstHalfAvg), Hundred))
  ELSE Zero

\* Object.entries(item.risk_indicators).forEach(...)
RECURSIVE TallyEntries(_, _)
TallyEntries(riskIndicators, entries) ==
  IF entries = <<>> THEN riskIndicators
  ELSE TallyEntries(IF Truthy(Head(entries)[2])
                    THEN SetKey(riskIndicators, Head(entries)[1],
                                PlusOne(Head(entries)[1],
                                        GetOrZero(riskIndicators, Head(entries)[1])))
                    ELSE riskIndicators,
                    Tail(entries))

\* data.forEach(...)
RECURSIVE TallyData(_, _)
TallyData(riskIndicators, data) ==
  IF data = <<>> THEN riskIndicators
  ELSE TallyData(TallyEntries(riskIndicators, Head(data).risk_indicators), Tail(data))

\* b[1] - a[1] is not above 0: the difference is NaN, which sort takes as 0,
\* when a side is no numeral
KeepsOrder(b, a) == Inherited(b[1]) \/ Inherited(a[1]) \/ b[2] - a[2] >= 0

\* the entry a goes before the entries b with b[2] - a[2] > 0 only: the sort
\* is stable
RECURSIVE InsertByCount(_, _)
InsertByCount(sorted, a) ==
  IF sorted = <<>> THEN <<a>>
  ELSE IF KeepsOrder(Head(sorted), a)
  THEN <<Head(sorted)>> \o InsertByCount(Tail(sorted), a)
  ELSE <<a>> \o sorted

\* .sort((a, b) => b[1] - a[1])
RECURSIVE SortByCount(_)
SortByCount(entries) ==
  IF entries = <<>> THEN <<>>
  ELSE InsertByCount(SortByCount(SubSeq(entries, 1, Len(entries) - 1)),
                     entries[Len(entries)])

TopIndicators == 5

\* .map(([indicator, count]) => ({indicator, frequency, percentage}))
RiskIndicator(entry, n) ==
  [indicator |-> entry[1], frequency |-> entry[2],
   percentage |-> NumMul(NumDiv(ToNumber(entry[1], entry[2]), NumFromInt(n)), Hundred)]

RankedIndicators(sorted, n) == [i \in 1..Len(sorted) |-> RiskIndicator(sorted[i], n)]

\* sortedRiskIndicators.slice(0, 5)
CommonRiskIndicators(data) ==
  Limit(RankedIndicators(SortByCount(TallyData(<<>>, data)), Len(data)), TopIndicators)

RawData(data) ==
  [i \in 1..Len(data) |->
     [id |-> data[i].id, date |-> data[i].created_at, score |-> data[i].confidence_score]]

\* the object analyzeTrends returns for data that is not empty
TrendAnalysis(timeframe, data, firstHalfAvg, secondHalfAvg) ==
  [timeframe |-> timeframe,
   data_points |-> Len(data),
   average_score |-> HalfAvg(data),
   trend |-> [direction |-> TrendDirection(firstHalfAvg, secondHalfAvg),
              change_percentage |-> ToFixed2(ChangePercentage(firstHalfAvg, secondHalfAvg))],
   common_risk_indicators |-> CommonRiskIndicators(data),
   raw_data |-> RawData(data)]

NoTrendData == [message |-> "No data available for trend analysis", data |-> <<>>]

TrendOfData(timeframe, data) ==
  IF Len(data) = 0 THEN NoTrendData
  ELSE TrendAnalysis(timeframe, data, HalfAvg(FirstHalf(data)), HalfAvg(SecondHalf(data)))

\* the rows from start to end are those of the time frame
analyzeTrends(rows, detection_type, timeframe, fault, start, end) ==
  IF fault = "results_read" THEN [error |-> "Failed to analyze trends"]
  ELSE TrendOfData(timeframe, TrendWindow(rows, detection_type, start, end))

(***************************************************************************)
(* generateWellnessPlan                                                    *)
(***************************************************************************)
PlanLimit == 10

\* the score and the confidence below which an activity is added
MemoryScore == 70

LowConfidence == NumFromDecimal(7, 10)

DefaultCognitiveScore == [score |-> 75, status |-> "moderate", areas_of_concern |-> <<>>]

\* (variant: the query without .limit(n))
RecentUnlimited(rows, n) == Reverse(rows)

\* .order('created_at', {ascending: false}).limit(n)
Recent(rows, n) == Limit(Reverse(rows), n)

\* cognitiveScores[0] of the query with .limit(1), or the default
LatestCognitiveScore(scores) ==
  IF Len(scores) > 0 THEN Recent(scores, 1)[1] ELSE DefaultCognitiveScore

\* array.includes(x)
Includes(array, x) == \E i \in 1..Len(array) : array[i] = x

\* results.some(r => r.confidence_score < 0.7) over the results of a type
SomeLowConfidence(detectionResults, type) ==
  \E i \in 1..Len(detectionResults) :
    /\ detectionResults[i].detection_type = type
    /\ NumLess(ConfidenceOf[detectionResults[i].confidence_score], LowConfidence)

\* obj[key], when truthy
TruthyKey(obj, key) == \E i \in 1..Len(obj) : obj[i][1] = key /\ Truthy(obj[i][2])

\* behavioralResults.some(r => r.risk_indicators && r.risk_indicators.social_withdrawal)
SomeSocialWithdrawal(detectionResults) ==
  \E i \in 1..Len(detectionResults) :
    /\ detectionResults[i].detection_type = "behavioral"
    /\ TruthyKey(detectionResults[i].risk_indicators, "social_withdrawal")

Activity(id, frequency, duration_minutes, difficulty, category) ==
  [id |-> id, frequency |-> frequency, duration_minutes |-> duration_minutes,
   difficulty |-> difficulty, category |-> category]

CoreActivities ==
  <<Activity("daily-check-in", "daily", 5, "easy", "monitoring"),
    Activity("mindfulness-practice", "daily", 10, "easy", "wellness")>>

PhysicalExercise == Activity("physical-exercise", "3x-weekly", 30, "moderate", "physical")

\* the activities added on a condition, in the order of the conditions
ConditionalActivities(cognitiveScore, detectionResults) ==
  (IF SomeLowConfidence(detectionResults, "facial")
   THEN <<Activity("facial-exercises", "3x-weekly", 15, "moderate", "facial")>>
   ELSE <<>>)
  \o (IF SomeLowConfidence(detectionResults, "speech")
      THEN <<Activity("speech-practice", "daily", 15, "moderate", "speech"),
             Activity("word-retrieval", "2x-weekly", 20, "challenging", "speech")>>
      ELSE <<>>)
  \o (IF \/ cognitiveScore.score < MemoryScore
         \/ Includes(cognitiveScore.areas_of_concern, "memory")
      THEN <<Activity("memory-training", "daily", 20, "adaptive", "cognitive")>>
      ELSE <<>>)
  \o (IF SomeSocialWithdrawal(detectionResults)
      THEN <<Activity("social-engagement", "weekly", 60, "moderate", "social")>>
      ELSE <<>>)

\* (variant: physical-exercise is pushed with the core activities)
ActivitiesPhysicalEarly(cognitiveScore, detectionResults) ==
  CoreActivities \o <<PhysicalExercise>>
    \o ConditionalActivities(cognitiveScore, detectionResults)

Activities(cognitiveScore, detectionResults) ==
  CoreActivities \o ConditionalActivities(cognitiveScore, detectionResults)
    \o <<PhysicalExercise>>

Schedule ==
  [recommended_time_of_day |->
     [cognitive_exercises |-> "morning", physical_activities |-> "afternoon",
      relaxation |-> "evening"],
   weekly_distribution |->
     [monday |-> <<"daily-check-in", "mindfulness-practice", "memory-training">>,
      tuesday |-> <<"daily-check-in", "physical-exercise", "speech-practice">>,
      wednesday |-> <<"daily-check-in", "mindfulness-practice", "facial-exercises">>,
      thursday |-> <<"daily-check-in", "physical-exercise", "word-retrieval">>,
      friday |-> <<"daily-check-in", "mindfulness-practice", "memory-training">>,
      saturday |-> <<"daily-check-in", "physical-exercise", "social-engagement">>,
      sunday |-> <<"daily-check-in", "mindfulness-practice", "rest-day">>],
   adaptability |->
     "Adjust schedule based on energy levels and cognitive load throughout the day"]

\* the focus areas the description names: areas_of_concern.join(", ") ||
\* "overall cognitive health"
FocusAreas(areas_of_concern) ==
  IF areas_of_concern = <<>> THEN <<"overall cognitive health">> ELSE areas_of_concern

Recommendations ==
  [sleep |-> "Aim for 7-8 hours of quality sleep each night",
   nutrition |-> "Follow a Mediterranean-style diet rich in omega-3 fatty acids",
   hydration |-> "Drink at least 8 glasses of water daily",
   technology |-> "Take regular breaks from screens and practice digital detox"]

\* the object generateWellnessPlan returns
WellnessPlan(cognitiveScore, detectionResults, at) ==
  [title |-> "Personalized Cognitive Wellness Plan",
   description |-> FocusAreas(cognitiveScore.areas_of_concern),
   activities |-> Activities(cognitiveScore, detectionResults),
   schedule |-> Schedule,
   recommendations |-> Recommendations,
   created_at |-> at,
   last_updated |-> at]

generateWellnessPlan(scores, rows, fault, at) ==
  IF fault = "scores_read" THEN [error |-> "Failed to fetch cognitive data"]
  ELSE IF fault = "results_read" THEN [error |-> "Failed to fetch detection results"]
  ELSE WellnessPlan(LatestCognitiveScore(scores), Recent(rows, PlanLimit), at)

(***************************************************************************)
(* updateHealthMetrics.  The rows of wearable_data and health_metrics are  *)
(* stamped in hours: hour h of day d is d * 24 + h.  A value is a decimal  *)
(* in tenths (75 is 7.5); a column of a health_metrics row is <<>> when    *)
(* NULL and <<v>> when it holds v.                                         *)
(***************************************************************************)
HoursPerDay == 24

Timestamp(day, hour) == day * HoursPerDay + hour

\* new Date(t).toISOString().split('T')[0], as the number of the day
DateOf(t) == t \div HoursPerDay

DataTypes ==
  {"heart_rate", "sleep", "activity", "stress", "blood_pressure", "blood_glucose", "other"}

\* the values the model submits
Values == {-10, 49, 50, 69, 70, 300, 301, 366, 700, 701, 725, 1200, 49999, 50000, 99999, 100000}

\* the Number a value is parsed to
ValueOf == [value \in Values |-> NumFromDecimal(value, 10)]

\* the Numbers of the literals a value is compared with
Literal == [n \in {5, 7, 30, 70, 5000, 10000} |-> NumFromInt(n)]

\* value >= n, value <= n
AtLeast(value, n) == ~NumLess(ValueOf[value], Literal[n])

AtMost(value, n) == ~NumGreater(ValueOf[value], Literal[n])

\* (variant: the sleep thresholds are exclusive)
SleepQualityExclusive(value) ==
  IF ~AtMost(value, 7) THEN "good" ELSE IF ~AtMost(value, 5) THEN "fair" ELSE "poor"

SleepQuality(value) ==
  IF AtLeast(value, 7) THEN "good" ELSE IF AtLeast(value, 5) THEN "fair" ELSE "poor"

ActivityLevel(value) ==
  IF AtLeast(value, 10000) THEN "high" ELSE IF AtLeast(value, 5000) THEN "moderate" ELSE "low"

StressLevel(value) ==
  IF AtMost(value, 30) THEN "low" ELSE IF AtMost(value, 70) THEN "moderate" ELSE "high"

\* updateData as <<column, value>>, or <<>> where the switch returns
UpdateData(dataType, value) ==
  CASE dataType = "heart_rate" -> <<"resting_heart_rate", value>>
    [] dataType = "sleep" -> <<"sleep_quality", SleepQuality(value)>>
    [] dataType = "activity" -> <<"activity_level", ActivityLevel(value)>>
    [] dataType = "stress" -> <<"stress_level", StressLevel(value)>>
    [] OTHER -> <<>>

\* a row of health_metrics with every column of updateHealthMetrics NULL
MetricsRow(id, created_at) ==
  [id |-> id, created_at |-> created_at, resting_heart_rate |-> <<>>,
   sleep_quality |-> <<>>, activity_level |-> <<>>, stress_level |-> <<>>]

\* row with updateData written
Updated(row, updateData) == [row EXCEPT ![updateData[1]] = <<updateData[2]>>]

\* .order("created_at", { ascending: false }).limit(1).maybeSingle(), as a
\* sequence of at most one row
LatestMetrics(metrics) == Recent(metrics, 1)

\* .update(updateData).eq("id", id)
UpdateMetrics(metrics, id, updateData) ==
  [i \in 1..Len(metrics) |->
     IF metrics[i].id = id THEN Updated(metrics[i], updateData) ELSE metrics[i]]

\* .insert({user_id, ...updateData})
InsertMetrics(metrics, updateData, at) ==
  Append(metrics, Updated(MetricsRow(Len(metrics) + 1, at), updateData))

\* (variant: the row that was read is written back with updateData)
WriteMetricsWhole(metrics, latestMetrics, updateData, at) ==
  IF Len(latestMetrics) > 0 /\ DateOf(at) = DateOf(latestMetrics[1].created_at)
  THEN [i \in 1..Len(metrics) |->
          IF metrics[i].id = latestMetrics[1].id
          THEN Updated(latestMetrics[1], updateData) ELSE metrics[i]]
  ELSE InsertMetrics(metrics, updateData, at)

\* (variant: the latest row is updated whatever its date)
WriteMetricsAnyDay(metrics, latestMetrics, updateData, at) ==
  IF Len(latestMetrics) > 0
  THEN UpdateMetrics(metrics, latestMetrics[1].id, updateData)
  ELSE InsertMetrics(metrics, updateData, at)

\* the write of updateHealthMetrics, at time at, after latestMetrics was read
WriteMetrics(metrics, latestMetrics, updateData, at) ==
  IF Len(latestMetrics) > 0 /\ DateOf(at) = DateOf(latestMetrics[1].created_at)
  THEN UpdateMetrics(metrics, latestMetrics[1].id, updateData)
  ELSE InsertMetrics(metrics, updateData, at)

\* the table after the part of updateHealthMetrics that follows the read
MetricsWritten(metrics, latestMetrics, updateData, fault, at) ==
  IF Len(updateData) = 0 \/ fault = "metrics_write" THEN metrics
  ELSE WriteMetrics(metrics, latestMetrics, updateData, at)

\* the table after updateHealthMetrics; a failed read returns, a failed write
\* is not looked at, and nothing is thrown to the caller
updateHealthMetrics(metrics, dataType, value, fault, at) ==
  IF fault = "metrics_read" THEN metrics
  ELSE MetricsWritten(metrics, LatestMetrics(metrics), UpdateData(dataType, value), fault, at)

(***************************************************************************)
(* The routes.  authed says whether the session's user is the userId of    *)
(* the request; fault names the one database call of the handler that      *)
(* fails, "none" when all succeed.                                         *)
(***************************************************************************)
Unauthorized == [status |-> 401, body |-> [error |-> "Unauthorized"]]

\* a row of detection_results; ids are given in the order of insertion
Row(id, detection_type, confidence_score, risk_indicators, created_at) ==
  [id |-> id, detection_type |-> detection_type, confidence_score |-> confidence_score,
   risk_indicators |-> risk_indicators, created_at |-> created_at]

\* POST /api/detection-results
POST_DetectionResult(authed, detection_type, confidence_score, risk_indicators, fault) ==
  /\ request' = [op |-> "POST detection-results", at |-> now]
  /\ IF ~authed
     THEN /\ response' = Unauthorized
          /\ UNCHANGED detection_results
     ELSE IF fault = "result_insert"
     THEN /\ response' = [status |-> 500,
                          body |-> [error |-> "Failed to save detection result"]]
          /\ UNCHANGED detection_results
     ELSE /\ detection_results' =
               Append(detection_results,
                      Row(Len(detection_results) + 1, detection_type, confidence_score,
                          risk_indicators, now))
          /\ response' = [status |-> 200,
                          body |-> [id |-> Len(detection_results) + 1, success |-> TRUE]]
  /\ UNCHANGED <<others, cognitive_scores, wellness_plans, wearables, now>>

\* PUT /api/detection-results: the cognitive health score
ScoreRow(cognitiveHealth, at) ==
  [score |-> cognitiveHealth.cognitive_score,
   status |-> cognitiveHealth.status,
   areas_of_concern |-> cognitiveHealth.areas_of_concern,
   component_scores |-> cognitiveHealth.component_scores,
   created_at |-> at]

\* the handler once cognitiveHealth is computed
PUT_Respond(fault, cognitiveHealth) ==
  IF IsError(cognitiveHealth)
  THEN /\ response' = [status |-> 500, body |-> cognitiveHealth]
       /\ UNCHANGED cognitive_scores
  ELSE /\ response' = [status |-> 200, body |-> cognitiveHealth]
       /\ cognitive_scores' =
            IF fault = "score_insert" THEN cognitive_scores
            ELSE Append(cognitive_scores, ScoreRow(cognitiveHealth, now))

PUT_CognitiveScore(authed, fault) ==
  /\ request' = [op |-> "PUT detection-results", at |-> now]
  /\ IF ~authed
     THEN /\ response' = Unauthorized
          /\ UNCHANGED cognitive_scores
     ELSE PUT_Respond(fault, calculateCognitiveScore(detection_results, fault, now))
  /\ UNCHANGED <<others, detection_results, wellness_plans, wearables, now>>

\* the response once trendAnalysis is computed
PATCH_Respond(trendAnalysis) ==
  IF IsError(trendAnalysis)
  THEN [status |-> 500, body |-> [error |-> trendAnalysis.error]]
  ELSE [status |-> 200, body |-> trendAnalysis]

\* PATCH /api/detection-results: the trend analysis.  startDate is days
\* before a clock read after now, so a row written exactly days before now
\* is in the window only when the clock has not moved in between (~late).
PATCH_TrendAnalysis(authed, detection_type, timeframe, fault, days, late) ==
  /\ request' = [op |-> "PATCH detection-results", at |-> now,
                 detection_type |-> detection_type, timeframe |-> timeframe]
  /\ response' =
       IF timeframe \notin Timeframes
       THEN [status |-> 400, body |-> [error |-> "Invalid query parameters"]]
       ELSE IF ~authed THEN Unauthorized
       ELSE PATCH_Respond(analyzeTrends(detection_results, detection_type, timeframe, fault,
                                        now - days + (IF late THEN 1 ELSE 0), now))
  /\ UNCHANGED <<others, detection_results, cognitive_scores, wellness_plans, wearables,
                 now>>

\* a plan is served for 7 days
PlanDays == 7

\* (variant: the query in ascending order)
ExistingPlanOldest(plans) == Limit(SelectSeq(plans, LAMBDA p : p.is_active), 1)

\* .eq("is_active", true).order("created_at", {ascending: false}).limit(1)
ExistingPlan(plans) == Recent(SelectSeq(plans, LAMBDA p : p.is_active), 1)

\* (variant: the difference is taken the other way)
DaysUntilCreation(plan, at) == plan.created_at - at

\* Math.floor((Date.now() - planDate.getTime()) / (1000 * 60 * 60 * 24))
DaysSinceCreation(plan, at) == at - plan.created_at

\* the row the insert returns
PlanRow(id, wellnessPlan, at) ==
  [id |-> id, title |-> wellnessPlan.title, description |-> wellnessPlan.description,
   activities |-> wellnessPlan.activities, schedule |-> wellnessPlan.schedule,
   is_active |-> TRUE, created_at |-> at]

\* (variant: a plan that could not be saved is an error)
GET_GeneratedOrFailed(fault, wellnessPlan) ==
  IF IsError(wellnessPlan)
  THEN /\ response' = [status |-> 500, body |-> [error |-> wellnessPlan.error]]
       /\ UNCHANGED wellness_plans
  ELSE IF fault = "plan_insert"
  THEN /\ response' = [status |-> 500, body |-> [error |-> "Failed to save wellness plan"]]
       /\ UNCHANGED wellness_plans
  ELSE /\ wellness_plans' =
            Append(wellness_plans, PlanRow(Len(wellness_plans) + 1, wellnessPlan, now))
       /\ response' = [status |-> 200,
                       body |-> [plan |-> PlanRow(Len(wellness_plans) + 1, wellnessPlan, now),
                                 is_new |-> TRUE, days_remaining |-> PlanDays]]

\* the handler once wellnessPlan is generated
GET_Generated(fault, wellnessPlan) ==
  IF IsError(wellnessPlan)
  THEN /\ response' = [status |-> 500, body |-> [error |-> wellnessPlan.error]]
       /\ UNCHANGED wellness_plans
  ELSE IF fault = "plan_insert"
  THEN /\ response' = [status |-> 200,
                       body |-> [plan |-> wellnessPlan, is_new |-> TRUE,
                                 days_remaining |-> PlanDays]]
       /\ UNCHANGED wellness_plans
  ELSE /\ wellness_plans' =
            Append(wellness_plans, PlanRow(Len(wellness_plans) + 1, wellnessPlan, now))
       /\ response' = [status |-> 200,
                       body |-> [plan |-> PlanRow(Len(wellness_plans) + 1, wellnessPlan, now),
                                 is_new |-> TRUE, days_remaining |-> PlanDays]]

\* (variant: a plan of 7 days is still served)
GET_CheckedInclusive(fault, existingPlan) ==
  IF Len(existingPlan) > 0 /\ DaysSinceCreation(existingPlan[1], now) <= PlanDays
  THEN /\ response' = [status |-> 200,
                       body |-> [plan |-> existingPlan[1], is_new |-> FALSE,
                                 days_remaining |->
                                   PlanDays - DaysSinceCreation(existingPlan[1], now)]]
       /\ UNCHANGED wellness_plans
  ELSE GET_Generated(fault, generateWellnessPlan(cognitive_scores, detection_results,
                                                 fault, now))

\* the handler once existingPlan is read
GET_Checked(fault, existingPlan) ==
  IF Len(existingPlan) > 0 /\ DaysSinceCreation(existingPlan[1], now) < PlanDays
  THEN /\ response' = [status |-> 200,
                       body |-> [plan |-> existingPlan[1], is_new |-> FALSE,
                                 days_remaining |->
                                   PlanDays - DaysSinceCreation(existingPlan[1], now)]]
       /\ UNCHANGED wellness_plans
  ELSE GET_Generated(fault, generateWellnessPlan(cognitive_scores, detection_results,
                                                 fault, now))

\* GET /api/wellness-plan
GET_WellnessPlan(authed, fault) ==
  /\ request' = [op |-> "GET wellness-plan", at |-> now]
  /\ IF ~authed
     THEN /\ response' = Unauthorized
          /\ UNCHANGED wellness_plans
     ELSE IF fault = "plans_read"
     THEN /\ response' = [status |-> 500,
                          body |-> [error |-> "Failed to check existing plans"]]
          /\ UNCHANGED wellness_plans
     ELSE GET_Checked(fault, ExistingPlan(wellness_plans))
  /\ UNCHANGED <<others, detection_results, cognitive_scores, wearables, now>>

\* a field the request body does not have, or has as ""
Missing == ""

\* planId when the request body has none
NoPlan == 0

\* completed: completed || false, notes: notes || "",
\* completed_at: completed ? new Date().toISOString() : null
ProgressRow(id, planId, activityId, completed, notes, at) ==
  [id |-> id, plan_id |-> planId, activity_id |-> activityId, completed |-> completed,
   notes |-> notes, completed_at |-> IF completed THEN <<at>> ELSE <<>>]

\* (variant: the plan is not looked up by its id)
PlanFetchedAny(plans, planId) == Len(plans) >= 1

\* .eq("id", planId).eq("user_id", userId).single() gives no error: there is
\* exactly one such row
PlanFetched(plans, planId) == Len(SelectSeq(plans, LAMBDA p : p.id = planId)) = 1

\* POST /api/wellness-plan: the progress of an activity
POST_ActivityProgress(authed, userId, planId, activityId, completed, notes, fault) ==
  /\ request' = [op |-> "POST wellness-plan", at |-> now]
  /\ IF userId = Missing \/ planId = NoPlan \/ activityId = Missing
     THEN /\ response' = [status |-> 400, body |-> [error |-> "Missing required fields"]]
          /\ UNCHANGED activity_progress
     ELSE IF ~authed
     THEN /\ response' = Unauthorized
          /\ UNCHANGED activity_progress
     ELSE IF fault = "plan_read" \/ ~PlanFetched(wellness_plans, planId)
     THEN /\ response' = [status |-> 500,
                          body |-> [error |-> "Failed to fetch wellness plan"]]
          /\ UNCHANGED activity_progress
     ELSE IF fault = "progress_insert"
     THEN /\ response' = [status |-> 500,
                          body |-> [error |-> "Failed to update activity progress"]]
          /\ UNCHANGED activity_progress
     ELSE /\ activity_progress' =
               Append(activity_progress,
                      ProgressRow(Len(activity_progress) + 1, planId, activityId,
                                  completed, notes, now))
          /\ response' = [status |-> 200,
                          body |-> [success |-> TRUE,
                                    progress |->
                                      ProgressRow(Len(activity_progress) + 1, planId,
                                                  activityId, completed, notes, now)]]
  /\ UNCHANGED <<caregivers, limiter, detection_results, cognitive_scores, wellness_plans,
                 wearables, now>>

(***************************************************************************)
(* The caregiver routes and the GET of the wearable route.  caller is the  *)
(* session's user, NoUser without a session; userId is the user the        *)
(* request names.  A row of caregiver_relationships holds the columns the  *)
(* routes use: id, user_id, caregiver_email, access_level, status.         *)
(***************************************************************************)
NoUser == ""

\* user.email of each user
Emails == [u1 |-> "patient@example.com", u2 |-> "carer@example.com"]

Users == DOMAIN Emails

Statuses == {"pending", "active", "revoked"}

AccessLevels == {"view", "manage"}

\* z.string().email()
IsEmail(text) == text \in {Emails[u] : u \in Users} \cup {"friend@example.com"}

Relationship(id, userId, caregiverEmail, accessLevel) ==
  [id |-> id, user_id |-> userId, caregiver_email |-> caregiverEmail,
   access_level |-> accessLevel, status |-> "pending"]

\* .eq("user_id", userId).eq("caregiver_email", caregiverEmail)
RelationshipsOf(rows, userId, caregiverEmail) ==
  SelectSeq(rows, LAMBDA r : r.user_id = userId /\ r.caregiver_email = caregiverEmail)

\* .eq("id", caregiverId)
RelationshipById(rows, caregiverId) == SelectSeq(rows, LAMBDA r : r.id = caregiverId)

\* the handler once existingCaregiver is read
POST_Created(userId, caregiverEmail, accessLevel, fault, existingCaregiver) ==
  IF Len(existingCaregiver) > 0
  THEN /\ response' = [status |-> 409,
                       body |-> [error |-> "Caregiver already exists",
                                 caregiver |-> existingCaregiver[1]]]
       /\ UNCHANGED caregivers
  ELSE IF fault = "caregiver_insert"
  THEN /\ response' = [status |-> 500, body |-> [error |-> "Failed to add caregiver"]]
       /\ UNCHANGED caregivers
  ELSE /\ caregiver_ids' = caregiver_ids + 1
       /\ caregiver_relationships' =
            Append(caregiver_relationships,
                   Relationship(caregiver_ids + 1, userId, caregiverEmail, accessLevel))
       /\ response' =
            [status |-> 200,
             body |-> [caregiver |-> Relationship(caregiver_ids + 1, userId,
                                                  caregiverEmail, accessLevel),
                       shareLink |-> <<"/caregiver/invite/", caregiver_ids + 1>>,
                       message |-> "Caregiver invitation created successfully"]]

\* POST /api/caregivers: the invitation of a caregiver.  .maybeSingle() gives
\* an error for more than one row
POST_Caregiver(caller, userId, caregiverEmail, accessLevel, fault) ==
  /\ request' = [op |-> "POST caregivers", at |-> now]
  /\ IF ~IsEmail(caregiverEmail) \/ accessLevel \notin AccessLevels
     THEN /\ response' = [status |-> 400, body |-> [error |-> "Invalid request body"]]
          /\ UNCHANGED caregivers
     ELSE IF caller = NoUser \/ caller # userId
     THEN /\ response' = Unauthorized
          /\ UNCHANGED caregivers
     ELSE IF \/ fault = "caregiver_check"
             \/ Len(RelationshipsOf(caregiver_relationships, userId, caregiverEmail)) > 1
     THEN /\ response' = [status |-> 500,
                          body |-> [error |-> "Failed to check existing caregiver"]]
          /\ UNCHANGED caregivers
     ELSE POST_Created(userId, caregiverEmail, accessLevel, fault,
                       RelationshipsOf(caregiver_relationships, userId, caregiverEmail))
  /\ UNCHANGED <<activity_progress, limiter, detection_results, cognitive_scores,
                 wellness_plans, wearables, now>>

\* updateData: the status, and the access level if the body has one
UpdatedRelationship(row, status, accessLevel) ==
  [row EXCEPT !.status = status,
              !.access_level = IF accessLevel = Missing THEN @ ELSE accessLevel]

\* the handler once existingCaregiver is fetched
PATCH_Updated(caregiverId, userId, status, accessLevel, fault, existingCaregiver) ==
  IF existingCaregiver.user_id # userId
  THEN /\ response' = Unauthorized
       /\ UNCHANGED caregiver_relationships
  ELSE IF fault = "caregiver_update"
  THEN /\ response' = [status |-> 500,
                       body |-> [error |-> "Failed to update caregiver relationship"]]
       /\ UNCHANGED caregiver_relationships
  ELSE /\ caregiver_relationships' =
            [i \in 1..Len(caregiver_relationships) |->
               IF caregiver_relationships[i].id = caregiverId
               THEN UpdatedRelationship(caregiver_relationships[i], status, accessLevel)
               ELSE caregiver_relationships[i]]
       /\ response' =
            [status |-> 200,
             body |-> [caregiver |-> UpdatedRelationship(existingCaregiver, status,
                                                         accessLevel),
                       message |-> "Caregiver relationship updated successfully"]]

\* PATCH /api/caregivers/[id].  .single() gives an error unless there is
\* exactly one row
PATCH_Caregiver(caller, caregiverId, userId, status, accessLevel, fault) ==
  /\ request' = [op |-> "PATCH caregivers", at |-> now]
  /\ IF status \notin Statuses \/ accessLevel \notin AccessLevels \cup {Missing}
     THEN /\ response' = [status |-> 400, body |-> [error |-> "Invalid request body"]]
          /\ UNCHANGED caregiver_relationships
     ELSE IF caller = NoUser \/ caller # userId
     THEN /\ response' = Unauthorized
          /\ UNCHANGED caregiver_relationships
     ELSE IF \/ fault = "caregiver_read"
             \/ Len(RelationshipById(caregiver_relationships, caregiverId)) # 1
     THEN /\ response' = [status |-> 500,
                          body |-> [error |-> "Failed to fetch caregiver relationship"]]
          /\ UNCHANGED caregiver_relationships
     ELSE PATCH_Updated(caregiverId, userId, status, accessLevel, fault,
                        RelationshipById(caregiver_relationships, caregiverId)[1])
  /\ UNCHANGED <<activity_progress, caregiver_ids, limiter, detection_results,
                 cognitive_scores, wellness_plans, wearables, now>>

\* the handler once existingCaregiver is fetched
DELETE_Deleted(caregiverId, userId, fault, existingCaregiver) ==
  IF existingCaregiver.user_id # userId
  THEN /\ response' = Unauthorized
       /\ UNCHANGED caregiver_relationships
  ELSE IF fault = "caregiver_delete"
  THEN /\ response' = [status |-> 500,
                       body |-> [error |-> "Failed to delete caregiver relationship"]]
       /\ UNCHANGED caregiver_relationships
  ELSE /\ caregiver_relationships' =
            SelectSeq(caregiver_relationships, LAMBDA r : r.id # caregiverId)
       /\ response' =
            [status |-> 200,
             body |-> [message |-> "Caregiver relationship deleted successfully"]]

\* DELETE /api/caregivers/[id]?userId=
DELETE_Caregiver(caller, caregiverId, userId, fault) ==
  /\ request' = [op |-> "DELETE caregivers", at |-> now]
  /\ IF userId = Missing
     THEN /\ response' = [status |-> 400, body |-> [error |-> "User ID is required"]]
          /\ UNCHANGED caregiver_relationships
     ELSE IF caller = NoUser \/ caller # userId
     THEN /\ response' = Unauthorized
          /\ UNCHANGED caregiver_relationships
     ELSE IF \/ fault = "caregiver_read"
             \/ Len(RelationshipById(caregiver_relationships, caregiverId)) # 1
     THEN /\ response' = [status |-> 500,
                          body |-> [error |-> "Failed to fetch caregiver relationship"]]
          /\ UNCHANGED caregiver_relationships
     ELSE DELETE_Deleted(caregiverId, userId, fault,
                         RelationshipById(caregiver_relationships, caregiverId)[1])
  /\ UNCHANGED <<activity_progress, caregiver_ids, limiter, detection_results,
                 cognitive_scores, wellness_plans, wearables, now>>

\* The invite page: the invitation is fetched with GET /api/caregivers/[id],
\* which the user it is of and the user of its email may read, and
\* acceptInvitation of a logged-in user whose email is that of the
\* invitation sends the PATCH, with the user the invitation is of as userId
acceptInvitation(caller, caregiverId) ==
  /\ caller # NoUser
  /\ Len(RelationshipById(caregiver_relationships, caregiverId)) = 1
  /\ Emails[caller] = RelationshipById(caregiver_relationships, caregiverId)[1].caregiver_email
  /\ PATCH_Caregiver(caller, caregiverId,
                     RelationshipById(caregiver_relationships, caregiverId)[1].user_id,
                     "active", Missing, "none")

\* (variant: the relationship is looked up whatever its status)
CaregiverRelationshipAny(rows, userId, email) == RelationshipsOf(rows, userId, email)

\* .eq("user_id", userId).eq("caregiver_email", user.email)
\* .eq("status", "active")
CaregiverRelationship(rows, userId, email) ==
  SelectSeq(RelationshipsOf(rows, userId, email), LAMBDA r : r.status = "active")

\* the readings of the user, .order("timestamp", { ascending: false });
\* the model holds the readings of User only
ReadingsOf(userId) == IF userId = "u1" THEN Reverse(wearable_data) ELSE <<>>

\* GET /api/wearable-data without filters.  .maybeSingle() gives an error
\* for more than one row
GET_WearableData(caller, userId, fault) ==
  /\ request' = [op |-> "GET wearable-data", at |-> now, user |-> caller,
                 userId |-> userId]
  /\ response' =
       IF userId = Missing
       THEN [status |-> 400, body |-> [error |-> "Invalid query parameters"]]
       ELSE IF caller = NoUser THEN Unauthorized
       ELSE IF /\ caller # userId
               /\ \/ fault = "caregiver_read"
                  \/ Len(CaregiverRelationship(caregiver_relationships, userId,
                                               Emails[caller])) # 1
       THEN Unauthorized
       ELSE IF fault = "wearable_read"
       THEN [status |-> 500, body |-> [error |-> "Failed to fetch wearable data"]]
       ELSE [status |-> 200, body |-> [data |-> ReadingsOf(userId)]]
  /\ UNCHANGED <<others, detection_results, cognitive_scores, wellness_plans, wearables,
                 now>>

(***************************************************************************)
(* mlApiMiddleware.  rateLimit is a Map: a function from the identifiers   *)
(* it holds to their entries.  The clock counts milliseconds here.  What   *)
(* the middleware returns is the response, Continue when it returns null   *)
(* and the endpoint handler goes on.                                       *)
(***************************************************************************)
\* parseInt(process.env.NEXT_PUBLIC_API_RATE_LIMIT), 100 when it is not set:
\* the environment sets it to 2
MAX_REQUESTS == 2

\* parseInt(process.env.NEXT_PUBLIC_API_RATE_LIMIT_WINDOW), 60000 when it is
\* not set: the environment sets it to 2
WINDOW_MS == 2

\* req.headers.get('x-forwarded-for') || 'unknown'
ForwardedFor(ip) == IF ip = Missing THEN "unknown" ELSE ip

Identifier(user, ip) == user \o ":" \o ForwardedFor(ip)

MapHas(map, key) == key \in DOMAIN map

MapSet(map, key, value) ==
  [k \in DOMAIN map \cup {key} |-> IF k = key THEN value ELSE map[k]]

MapDelete(map, key) ==
  IF DOMAIN map \ {key} = {} THEN <<>> ELSE [k \in DOMAIN map \ {key} |-> map[k]]

Continue == [status |-> 0, body |-> [continue |-> TRUE]]

TooManyRequests ==
  [status |-> 429, body |-> [error |-> "Rate limit exceeded. Try again later."]]

\* the Map once an entry whose window has passed is deleted, and
\* userRateLimit, which was read before and still is the deleted entry
Expired(map, identifier, at) ==
  [map |-> IF MapHas(map, identifier) /\ at > map[identifier].resetTime
           THEN MapDelete(map, identifier) ELSE map,
   userRateLimit |-> IF MapHas(map, identifier) THEN <<map[identifier]>> ELSE <<>>]

\* userRateLimit.count += 1 changes the Map only if the Map still holds the
\* entry
Counted(map, identifier, userRateLimit, at) ==
  IF userRateLimit # <<>>
  THEN IF MapHas(map, identifier)
       THEN MapSet(map, identifier,
                   [userRateLimit[1] EXCEPT !.count = userRateLimit[1].count + 1])
       ELSE map
  ELSE MapSet(map, identifier, [count |-> 1, resetTime |-> at + WINDOW_MS])

\* the rate limiting and the check of the API key, once the entry is read
Limited(identifier, unkeyed, expired) ==
  IF expired.userRateLimit # <<>> /\ expired.userRateLimit[1].count >= MAX_REQUESTS
  THEN /\ rateLimit' = expired.map
       /\ response' = TooManyRequests
  ELSE /\ rateLimit' = Counted(expired.map, identifier, expired.userRateLimit, now)
       /\ response' = IF unkeyed
                      THEN [status |-> 500,
                            body |-> [error |-> "OpenAI API key not configured"]]
                      ELSE Continue

\* a request to an endpoint that calls mlApiMiddleware; unkeyed: the path
\* holds '/chatbot' and OPENAI_API_KEY is not set
mlApiMiddleware(user, ip, unkeyed) ==
  /\ request' = [op |-> "ML", at |-> now, identifier |-> Identifier(user, ip)]
  /\ IF user = NoUser
     THEN /\ response' = Unauthorized
          /\ UNCHANGED limiter
     ELSE /\ Limited(Identifier(user, ip), unkeyed,
                     Expired(rateLimit, Identifier(user, ip), now))
          /\ admitted' = Append(admitted, [identifier |-> Identifier(user, ip),
                                           at |-> now, status |-> response'.status])
  /\ UNCHANGED <<activity_progress, caregivers, detection_results, cognitive_scores,
                 wellness_plans, wearables, now>>

\* a row of wearable_data
Reading(id, data_type, value, created_at) ==
  [id |-> id, data_type |-> data_type, value |-> value, created_at |-> created_at]

WearableSaved(reading) ==
  [status |-> 200, body |-> [data |-> reading, message |-> "Wearable data saved successfully"]]

\* POST /api/wearable-data at hour `hour` of day `now`, when no other
\* submission is in progress
POST_WearableData(authed, data_type, value, fault, hour) ==
  /\ request' = [op |-> "POST wearable-data", at |-> Timestamp(now, hour)]
  /\ IF data_type \notin DataTypes
     THEN /\ response' = [status |-> 400, body |-> [error |-> "Invalid request body"]]
          /\ UNCHANGED <<wearable_data, health_metrics>>
     ELSE IF ~authed
     THEN /\ response' = Unauthorized
          /\ UNCHANGED <<wearable_data, health_metrics>>
     ELSE IF fault = "wearable_insert"
     THEN /\ response' = [status |-> 500, body |-> [error |-> "Failed to save wearable data"]]
          /\ UNCHANGED <<wearable_data, health_metrics>>
     ELSE /\ wearable_data' =
               Append(wearable_data,
                      Reading(Len(wearable_data) + 1, data_type, value, Timestamp(now, hour)))
          /\ health_metrics' =
               updateHealthMetrics(health_metrics, data_type, value, fault,
                                   Timestamp(now, hour))
          /\ response' = WearableSaved(Reading(Len(wearable_data) + 1, data_type, value,
                                               Timestamp(now, hour)))
  /\ UNCHANGED <<others, detection_results, cognitive_scores, wellness_plans, submissions,
                 now>>

\* The POST handler of an authenticated user, no call failing, up to the
\* await of the read of updateHealthMetrics: the reading is inserted and the
\* latest row of health_metrics read
POST_WearableRead(data_type, value, hour) ==
  /\ data_type \in DataTypes
  /\ request' = [op |-> "POST wearable-data", at |-> Timestamp(now, hour)]
  /\ wearable_data' =
       Append(wearable_data,
              Reading(Len(wearable_data) + 1, data_type, value, Timestamp(now, hour)))
  /\ submissions' =
       Append(submissions,
              [reading |-> Reading(Len(wearable_data) + 1, data_type, value,
                                   Timestamp(now, hour)),
               latestMetrics |-> LatestMetrics(health_metrics)])
  /\ UNCHANGED <<others, detection_results, cognitive_scores, wellness_plans, health_metrics,
                 now, response>>

\* seq without its i-th element
Without(seq, i) == SubSeq(seq, 1, i - 1) \o SubSeq(seq, i + 1, Len(seq))

\* The rest of the handler for the i-th submission in progress, at hour
\* `hour` of day `now`: the write that follows from the row that was read,
\* and the response
POST_WearableWrite(i, hour) ==
  /\ i \in 1..Len(submissions)
  /\ health_metrics' =
       MetricsWritten(health_metrics, submissions[i].latestMetrics,
                      UpdateData(submissions[i].reading.data_type,
                                 submissions[i].reading.value),
                      "none", Timestamp(now, hour))
  /\ submissions' = Without(submissions, i)
  /\ response' = WearableSaved(submissions[i].reading)
  /\ UNCHANGED <<others, detection_results, cognitive_scores, wellness_plans, wearable_data,
                 now, request>>

(***************************************************************************)
(* Specifications.  Each draws its requests from a small set of inputs and *)
(* may start from a history: rows written before time 0.                   *)
(***************************************************************************)
MaxPosts == 2

MaxScores == 1

\* n rows of one kind, written before time 0
History(n, detection_type, confidence_score) ==
  [i \in 1..n |-> Row(i, detection_type, confidence_score, <<>>, -1)]

\* the number of rows written since time 0
Posted == Len(SelectSeq(detection_results, LAMBDA r : r.created_at >= 0))

NoRequest == [op |-> "none", at |-> 0]

NoResponse == [status |-> 0, body |-> [none |-> TRUE]]

\* no wearable has submitted
NoWearables ==
  /\ wearable_data = <<>>
  /\ health_metrics = <<>>
  /\ submissions = <<>>

\* no progress is recorded, nobody is invited and the middleware has not
\* been called
NoOthers ==
  /\ activity_progress = <<>>
  /\ caregiver_relationships = <<>>
  /\ caregiver_ids = 0
  /\ rateLimit = <<>>
  /\ admitted = <<>>

InitWith(histories) ==
  /\ NoOthers
  /\ detection_results \in histories
  /\ cognitive_scores = <<>>
  /\ wellness_plans = <<>>
  /\ NoWearables
  /\ now = 0
  /\ request = NoRequest
  /\ response = NoResponse

\* --- the cognitive score

ScoreHistories == {<<>>, History(ScoreLimit, "facial", 10)}

\* the schema takes any number as confidence_score: 12 stands for 1.2
ScoreInputs == {<<"facial", 6>>, <<"facial", 12>>, <<"speech", 5>>,
                <<"speech", 10>>, <<"behavioral", 6>>}

ScoreFaults == {"none", "score_insert"}

InitScore == InitWith(ScoreHistories)

PostScored ==
  /\ Posted < MaxPosts
  /\ \E in \in ScoreInputs : POST_DetectionResult(TRUE, in[1], in[2], <<>>, "none")

PutScore ==
  \E fault \in ScoreFaults :
    /\ fault = "none" => Len(cognitive_scores) < MaxScores
    /\ PUT_CognitiveScore(TRUE, fault)

NextScore == PostScored \/ PutScore

SpecScore == InitScore /\ [][NextScore]_vars

\* --- the trend analysis

MaxTrendPosts == 2

MaxNow == 1

TrendHistories == {<<>>, History(3, "facial", 1)}

TrendInputs == {<<"facial", 0>>, <<"facial", 1>>, <<"facial", 4>>, <<"speech", 3>>}

TrendTimeframes == {"day", "week", "decade"}

TrendFaults == {"none", "results_read"}

InitTrend == InitWith(TrendHistories)

\* the clock moves on by a day
Tick ==
  /\ now < MaxNow
  /\ now' = now + 1
  /\ UNCHANGED <<others, detection_results, cognitive_scores, wellness_plans, wearables,
                 request, response>>

PostTrend ==
  /\ Posted < MaxTrendPosts
  /\ \E in \in TrendInputs : POST_DetectionResult(TRUE, in[1], in[2], <<>>, "none")

PatchTrend ==
  \E timeframe \in TrendTimeframes, fault \in TrendFaults, late \in BOOLEAN :
    \E days \in Lookback(timeframe) :
      PATCH_TrendAnalysis(TRUE, "facial", timeframe, fault, days, late)

NextTrend == PostTrend \/ PatchTrend \/ Tick

SpecTrend == InitTrend /\ [][NextTrend]_vars

\* --- the risk-indicator ranking

MaxRiskPosts == 3

\* risk_indicators as stored: none, one name, one array index, a falsy value
\* beside a truthy one, six names
RiskInputs ==
  {<<>>,
   <<<<"fatigue", "true">>>>,
   <<<<"7", "true">>>>,
   <<<<"fatigue", "false">>, <<"tremor", "1">>>>,
   <<<<"confusion", "true">>, <<"fatigue", "true">>, <<"hesitation", "0.4">>,
     <<"memory_lapse", "true">>, <<"social_withdrawal", "true">>, <<"tremor", "true">>>>}

InitRisk == InitWith({<<>>})

PostRisk ==
  /\ Posted < MaxRiskPosts
  /\ \E risk_indicators \in RiskInputs :
       POST_DetectionResult(TRUE, "behavioral", 5, risk_indicators, "none")

PatchRisk ==
  \E late \in BOOLEAN : PATCH_TrendAnalysis(TRUE, "behavioral", "week", "none", 7, late)

NextRisk == PostRisk \/ PatchRisk \/ Tick

SpecRisk == InitRisk /\ [][NextRisk]_vars

\* --- the share of a risk indicator

MaxSharePosts == 3

\* risk_indicators as stored: none, a name with a truthy and with a falsy
\* value, a name that Object.prototype has too
ShareInputs ==
  {<<>>,
   <<<<"fatigue", "true">>>>,
   <<<<"fatigue", "false">>>>,
   <<<<"constructor", "true">>>>}

InitShare == InitWith({<<>>})

PostShare ==
  /\ Posted < MaxSharePosts
  /\ \E risk_indicators \in ShareInputs :
       POST_DetectionResult(TRUE, "behavioral", 5, risk_indicators, "none")

PatchShare ==
  \E late \in BOOLEAN : PATCH_TrendAnalysis(TRUE, "behavioral", "week", "none", 7, late)

NextShare == PostShare \/ PatchShare \/ Tick

SpecShare == InitShare /\ [][NextShare]_vars

\* --- the wellness plan

MaxPlanPosts == 2

MaxPlanScores == 1

\* nine rows: the oldest is a facial result of 0.5, the next a speech result
\* of 0.5, the others facial results of 0.9
PlanHistory ==
  [i \in 1..(PlanLimit - 1) |->
     Row(i, IF i = 2 THEN "speech" ELSE "facial", IF i <= 2 THEN 5 ELSE 9, <<>>, -1)]

PlanHistories == {<<>>, PlanHistory}

\* a snapshot written before time 0
Snapshot(score, areas_of_concern) ==
  [score |-> score, status |-> HealthStatus(score), areas_of_concern |-> areas_of_concern,
   component_scores |-> [facial |-> score, speech |-> score, behavioral |-> score],
   created_at |-> -1]

\* cognitive_scores is a table of the database: the snapshots of the history
\* are rows written to it before time 0, by this route or by another client
SnapshotHistories ==
  {<<>>,
   <<Snapshot(80, <<"memory">>)>>,
   <<Snapshot(65, <<>>), Snapshot(72, <<>>)>>}

PlanInputs ==
  {<<"facial", 7, <<<<"social_withdrawal", "true">>>>>>,
   <<"speech", 6, <<>>>>,
   <<"speech", 7, <<>>>>,
   <<"behavioral", 9, <<<<"social_withdrawal", "true">>>>>>,
   <<"behavioral", 9, <<<<"social_withdrawal", "false">>>>>>}

PlanFaults == {"none", "plans_read", "scores_read", "results_read", "plan_insert"}

\* the number of snapshots written since time 0
Scored == Len(SelectSeq(cognitive_scores, LAMBDA c : c.created_at >= 0))

InitPlan ==
  /\ NoOthers
  /\ detection_results \in PlanHistories
  /\ cognitive_scores \in SnapshotHistories
  /\ wellness_plans = <<>>
  /\ NoWearables
  /\ now = 0
  /\ request = NoRequest
  /\ response = NoResponse

PostPlan ==
  /\ Posted < MaxPlanPosts
  /\ \E in \in PlanInputs : POST_DetectionResult(TRUE, in[1], in[2], in[3], "none")

PutPlan ==
  /\ Scored < MaxPlanScores
  /\ \E fault \in ScoreFaults : PUT_CognitiveScore(TRUE, fault)

GetPlan == \E authed \in BOOLEAN, fault \in PlanFaults : GET_WellnessPlan(authed, fault)

\* the plans are generated within one day: a stored plan stays fresh
NextPlan == PostPlan \/ PutPlan \/ GetPlan

SpecPlan == InitPlan /\ [][NextPlan]_vars

\* --- the plan over the days

MaxFetchPosts == 1

MaxFetchNow == 8

FetchInputs == {<<"speech", 6, <<>>>>}

InitFetch == InitWith({<<>>})

PostFetch ==
  /\ Posted < MaxFetchPosts
  /\ \E in \in FetchInputs : POST_DetectionResult(TRUE, in[1], in[2], in[3], "none")

GetFetch == \E authed \in BOOLEAN, fault \in PlanFaults : GET_WellnessPlan(authed, fault)

\* one day passes, or six
DaysPass ==
  /\ \E days \in {1, PlanDays - 1} :
       /\ now + days <= MaxFetchNow
       /\ now' = now + days
  /\ UNCHANGED <<others, detection_results, cognitive_scores, wellness_plans, wearables,
                 request, response>>

NextFetch == PostFetch \/ GetFetch \/ DaysPass

SpecFetch == InitFetch /\ [][NextFetch]_vars

\* --- the progress of the activities

MaxProgress == 2

User == "u1"

\* the request bodies: planId, activityId, completed, notes
ProgressInputs ==
  {<<1, "daily-check-in", TRUE, "done">>,
   <<1, "memory-training", FALSE, "">>,
   <<2, "daily-check-in", TRUE, "">>,
   <<NoPlan, "daily-check-in", TRUE, "">>,
   <<1, Missing, FALSE, "">>}

ProgressFaults == {"none", "plan_read", "progress_insert"}

GetProgress == GET_WellnessPlan(TRUE, "none")

PostProgress ==
  /\ Len(activity_progress) < MaxProgress
  /\ \E authed \in BOOLEAN, userId \in {User, Missing}, in \in ProgressInputs,
        fault \in ProgressFaults :
       /\ authed => userId = User
       /\ POST_ActivityProgress(authed, userId, in[1], in[2], in[3], in[4], fault)

NextProgress == GetProgress \/ PostProgress \/ DaysPass

SpecProgress == InitFetch /\ [][NextProgress]_vars

\* --- the rate limit

MaxRequests == 4

MaxLimitNow == 3

\* user, x-forwarded-for and unkeyed
Calls ==
  {<<User, "10.0.0.1", FALSE>>, <<User, "10.0.0.1", TRUE>>, <<User, Missing, FALSE>>,
   <<NoUser, "10.0.0.1", FALSE>>}

InitLimit == InitWith({<<>>})

CallML ==
  /\ Len(admitted) < MaxRequests
  /\ \E call \in Calls : mlApiMiddleware(call[1], call[2], call[3])

\* a millisecond passes
Elapse ==
  /\ now < MaxLimitNow
  /\ now' = now + 1
  /\ UNCHANGED <<others, detection_results, cognitive_scores, wellness_plans, wearables,
                 request, response>>

NextLimit == CallML \/ Elapse

SpecLimit == InitLimit /\ [][NextLimit]_vars

\* --- the wearable readings

MaxReadings == 2

Hours == {0, 23}

\* a row of the day before day 0, with two columns set
MetricsHistory ==
  <<[MetricsRow(1, Timestamp(-1, 23)) EXCEPT !.sleep_quality = <<"good">>,
                                             !.stress_level = <<"low">>]>>

MetricsHistories == {<<>>, MetricsHistory}

\* the schema takes any number as value
WearableInputs ==
  {<<"heart_rate", 725>>,
   <<"sleep", 49>>, <<"sleep", 50>>, <<"sleep", 69>>, <<"sleep", 70>>,
   <<"activity", 49999>>, <<"activity", 50000>>, <<"activity", 99999>>,
   <<"activity", 100000>>,
   <<"stress", 300>>, <<"stress", 301>>, <<"stress", 700>>, <<"stress", 701>>,
   <<"blood_pressure", 1200>>, <<"other", -10>>, <<"temperature", 366>>}

WearableFaults == {"none", "wearable_insert", "metrics_read", "metrics_write"}

\* the time of the latest row written
LastWritten ==
  IF Len(wearable_data) > 0 THEN wearable_data[Len(wearable_data)].created_at
  ELSE Timestamp(0, 0)

InitWear ==
  /\ NoOthers
  /\ detection_results = <<>>
  /\ cognitive_scores = <<>>
  /\ wellness_plans = <<>>
  /\ wearable_data = <<>>
  /\ health_metrics \in MetricsHistories
  /\ submissions = <<>>
  /\ now = 0
  /\ request = NoRequest
  /\ response = NoResponse

\* a submission, not earlier than the latest row
PostWear ==
  /\ Len(wearable_data) < MaxReadings
  /\ \E in \in WearableInputs, fault \in WearableFaults, hour \in Hours,
        authed \in BOOLEAN :
       /\ Timestamp(now, hour) >= LastWritten
       /\ POST_WearableData(authed, in[1], in[2], fault, hour)

NextWear == PostWear \/ Tick

SpecWear == InitWear /\ [][NextWear]_vars

\* --- the wearable readings of concurrent submissions

MaxRaceReadings == 2

RaceInputs == {<<"sleep", 70>>, <<"stress", 300>>, <<"blood_pressure", 1200>>}

\* the time of the latest call of a submission
LastCalled ==
  IF Len(health_metrics) > 0 /\ health_metrics[Len(health_metrics)].created_at > LastWritten
  THEN health_metrics[Len(health_metrics)].created_at
  ELSE LastWritten

ReadRace ==
  /\ Len(wearable_data) < MaxRaceReadings
  /\ \E in \in RaceInputs, hour \in Hours :
       /\ Timestamp(now, hour) >= LastCalled
       /\ POST_WearableRead(in[1], in[2], hour)

WriteRace ==
  \E i \in 1..Len(submissions), hour \in Hours :
    /\ Timestamp(now, hour) >= LastCalled
    /\ POST_WearableWrite(i, hour)

NextRace == ReadRace \/ WriteRace \/ Tick

SpecRace == InitWear /\ [][NextRace]_vars

\* --- concurrent submissions to the row of the day

\* a row of day 0, with one column set
TodaysMetrics ==
  <<[MetricsRow(1, Timestamp(0, 0)) EXCEPT !.resting_heart_rate = <<725>>]>>

InitPatch ==
  /\ NoOthers
  /\ detection_results = <<>>
  /\ cognitive_scores = <<>>
  /\ wellness_plans = <<>>
  /\ wearable_data = <<>>
  /\ health_metrics = TodaysMetrics
  /\ submissions = <<>>
  /\ now = 0
  /\ request = NoRequest
  /\ response = NoResponse

SpecPatch == InitPatch /\ [][NextRace]_vars

\* --- caregivers and the readings they are given

MaxInvites == 2

\* caller, userId, caregiverEmail, accessLevel and fault
Invitations ==
  {<<"u1", "u1", Emails["u2"], "view", "none">>,
   <<"u1", "u1", Emails["u2"], "manage", "none">>,
   <<"u1", "u1", "friend@example.com", "view", "none">>,
   <<"u2", "u2", "friend@example.com", "view", "none">>,
   <<"u1", "u1", "nobody", "view", "none">>,
   <<"u2", "u1", Emails["u2"], "view", "none">>,
   <<NoUser, "u1", Emails["u2"], "view", "none">>,
   <<"u1", "u1", Emails["u2"], "view", "caregiver_check">>,
   <<"u1", "u1", Emails["u2"], "view", "caregiver_insert">>}

\* status, access level and fault
Changes ==
  {<<"active", Missing, "none">>, <<"revoked", Missing, "none">>,
   <<"pending", "manage", "none">>, <<"accepted", Missing, "none">>,
   <<"active", Missing, "caregiver_read">>, <<"active", Missing, "caregiver_update">>}

DeleteFaults == {"none", "caregiver_read", "caregiver_delete"}

ReadFaults == {"none", "caregiver_read", "wearable_read"}

InitCare == InitWith({<<>>})

\* the user submits a reading
PostCare ==
  /\ Len(wearable_data) < 1
  /\ POST_WearableData(TRUE, "sleep", 70, "none", 0)

Invite ==
  /\ caregiver_ids < MaxInvites
  /\ \E in \in Invitations : POST_Caregiver(in[1], in[2], in[3], in[4], in[5])

Update ==
  \E caller \in Users \cup {NoUser}, userId \in Users, id \in 1..MaxInvites,
     change \in Changes :
    PATCH_Caregiver(caller, id, userId, change[1], change[2], change[3])

Accept == \E caller \in Users, id \in 1..MaxInvites : acceptInvitation(caller, id)

Delete ==
  \E caller \in Users \cup {NoUser}, userId \in Users \cup {Missing},
     id \in 1..MaxInvites, fault \in DeleteFaults :
    DELETE_Caregiver(caller, id, userId, fault)

ReadWearable ==
  \E caller \in Users \cup {NoUser}, userId \in Users \cup {Missing},
     fault \in ReadFaults :
    GET_WearableData(caller, userId, fault)

NextCare == PostCare \/ Invite \/ Accept \/ Update \/ Delete \/ ReadWearable

SpecCare == InitCare /\ [][NextCare]_vars

(***************************************************************************)
(* Properties of the cognitive score.  They state what the response must   *)
(* be from the rows alone: Mean(type) folds the confidence scores of the   *)
(* ScoreLimit latest rows of a channel, latest first, walking the table    *)
(* from its end.                                                           *)
(***************************************************************************)
ScoreResponse == request.op = "PUT detection-results" /\ response.status = 200

\* <<sum, count>> over the k latest rows of the type among rows 1..i
RECURSIVE FoldLatest(_, _, _, _)
FoldLatest(type, i, k, acc) ==
  IF i = 0 \/ k = 0 THEN acc
  ELSE IF detection_results[i].detection_type = type
  THEN FoldLatest(type, i - 1, k - 1,
                  <<NumAdd(acc[1], NumFromDecimal(detection_results[i].confidence_score, 10)),
                    acc[2] + 1>>)
  ELSE FoldLatest(type, i - 1, k, acc)

MeanOf(f) == IF f[2] = 0 THEN Zero ELSE NumDiv(f[1], NumFromInt(f[2]))

Mean(type) == MeanOf(FoldLatest(type, Len(detection_results), 5, <<Zero, 0>>))

CountOf(type) == Len(SelectSeq(detection_results, LAMBDA r : r.detection_type = type))

InUnitRange == \A i \in 1..Len(detection_results) :
                 detection_results[i].confidence_score \in 0..10

\* the score of the rows of the table
ScoreOfRows ==
  MathRound(NumMul(NumFromInt(100),
    NumAdd(NumAdd(NumMul(NumFromDecimal(35, 100), Mean("facial")),
                  NumMul(NumFromDecimal(40, 100), Mean("speech"))),
           NumMul(NumFromDecimal(25, 100), Mean("behavioral")))))

\* C1: the score is round(100 * (0.35*facialAvg + 0.40*speechAvg +
\* 0.25*behavioralAvg)), each average the mean of the confidence scores of the
\* channel's at most 5 latest results, 0 for a channel without results; the
\* weights are not renormalized, and no history at all gives score 0.
C1_WeightedScore ==
  ScoreResponse =>
    /\ response.body.cognitive_score = ScoreOfRows
    /\ (detection_results = <<>> => response.body.cognitive_score = 0)

\* a score over more than 5 facial results and an empty behavioral channel
C1_Witness ==
  /\ ScoreResponse
  /\ CountOf("facial") > 5
  /\ CountOf("behavioral") = 0
  /\ CountOf("speech") > 0
  /\ response.body.cognitive_score > 0

\* C2: the status is decided by the score alone: concerning iff score < 50,
\* moderate iff 50 <= score < 70, healthy iff score >= 70; never "normal".
C2_StatusPartition ==
  ScoreResponse =>
    LET score == response.body.cognitive_score
        status == response.body.status
    IN  /\ status \in {"concerning", "moderate", "healthy"}
        /\ status = "concerning" <=> score < 50
        /\ status = "moderate" <=> (50 <= score /\ score < 70)
        /\ status = "healthy" <=> score >= 70

\* a score on the boundary between moderate and healthy
C2_Witness == ScoreResponse /\ response.body.cognitive_score = 70

\* C3: with every confidence score in [0,1] the score and the three component
\* scores are in 0..100, each component being round(channelAvg * 100).
C3_ScoreBounds ==
  (ScoreResponse /\ InUnitRange) =>
    /\ response.body.cognitive_score \in 0..100
    /\ \A ch \in {"facial", "speech", "behavioral"} :
         /\ response.body.component_scores[ch] \in 0..100
         /\ response.body.component_scores[ch] =
              MathRound(NumMul(Mean(ch), NumFromInt(100)))

\* all three channels present, in range, with a component of 100
C3_Witness ==
  /\ ScoreResponse /\ InUnitRange
  /\ \A ch \in {"facial", "speech", "behavioral"} : CountOf(ch) > 0
  /\ response.body.component_scores.facial = 100

\* C4: areas_of_concern lists a channel iff its average is < 0.6 (an average
\* of exactly 0.6 is not listed, a channel without results is), in the order
\* facial, speech, behavioral.
C4_AreasOfConcern ==
  ScoreResponse =>
    response.body.areas_of_concern =
      (IF NumLess(Mean("facial"), NumFromDecimal(6, 10))
       THEN <<"facial expressions">> ELSE <<>>)
      \o (IF NumLess(Mean("speech"), NumFromDecimal(6, 10))
          THEN <<"speech patterns">> ELSE <<>>)
      \o (IF NumLess(Mean("behavioral"), NumFromDecimal(6, 10))
          THEN <<"behavioral responses">> ELSE <<>>)

\* a facial average of exactly 0.6, not listed, beside two listed channels
C4_Witness ==
  /\ ScoreResponse
  /\ CountOf("facial") > 0
  /\ Mean("facial") = NumFromDecimal(6, 10)
  /\ response.body.areas_of_concern = <<"speech patterns", "behavioral responses">>

\* C30: with every confidence score in [0,1] the status is not "healthy"
\* when areas_of_concern lists all three channels, and not "concerning" when
\* areas_of_concern is empty.
C30_StatusAndAreas ==
  (ScoreResponse /\ InUnitRange) =>
    /\ Len(response.body.areas_of_concern) = 3 => response.body.status # "healthy"
    /\ response.body.areas_of_concern = <<>> => response.body.status # "concerning"

\* no channel is a concern, each having results, one of them at the
\* threshold
C30_Witness ==
  /\ ScoreResponse /\ InUnitRange
  /\ \A ch \in {"facial", "speech", "behavioral"} : CountOf(ch) > 0
  /\ Mean("behavioral") = NumFromDecimal(6, 10)
  /\ response.body.areas_of_concern = <<>>

(***************************************************************************)
(* Properties of the trend analysis.  The series of a response is the rows *)
(* its raw_data names, in that order; the averages of its halves are       *)
(* folded from the rows.                                                   *)
(***************************************************************************)
TrendResponse ==
  /\ request.op = "PATCH detection-results"
  /\ response.status = 200
  /\ "data_points" \in DOMAIN response.body

SeriesLen == Len(response.body.raw_data)

SeriesRow(i) == detection_results[response.body.raw_data[i].id]

\* the sum of the scores lo..hi of the series, added in that order
RECURSIVE SeriesSum(_, _)
SeriesSum(lo, hi) ==
  IF hi < lo THEN Zero
  ELSE NumAdd(SeriesSum(lo, hi - 1), NumFromDecimal(SeriesRow(hi).confidence_score, 10))

SeriesAvg(lo, hi) == NumDiv(SeriesSum(lo, hi), NumFromInt(hi - lo + 1))

FirstAvg == SeriesAvg(1, SeriesLen \div 2)

SecondAvg == SeriesAvg(SeriesLen \div 2 + 1, SeriesLen)

AllEqual == \A i \in 1..SeriesLen : SeriesRow(i).confidence_score = SeriesRow(1).confidence_score

\* C5: for n >= 2 the series is split at floor(n/2) and the direction is
\* improving, declining or stable as the average of the second half is above,
\* below or neither above nor below that of the first; when all scores are
\* equal the direction is stable and the change percentage 0.
C5_TrendDirection ==
  (TrendResponse /\ SeriesLen >= 2) =>
    /\ response.body.trend.direction =
         (IF NumGreater(SecondAvg, FirstAvg) THEN "improving"
          ELSE IF NumLess(SecondAvg, FirstAvg) THEN "declining" ELSE "stable")
    /\ AllEqual => /\ response.body.trend.direction = "stable"
                   /\ response.body.trend.change_percentage = Fixed(FALSE, 0)

\* the Number the change_percentage string reads as
Reported ==
  IF response.body.trend.change_percentage.nan THEN NaN
  ELSE NumFromDecimal(IF response.body.trend.change_percentage.neg
                      THEN -response.body.trend.change_percentage.hundredths
                      ELSE response.body.trend.change_percentage.hundredths, 100)

\* C6 as claimed: the change percentage reported is |second - first| / first
\* * 100 when the first average is not zero, and 0 when it is zero.
C6_ChangeExact ==
  (TrendResponse /\ SeriesLen >= 2) =>
    IF NumEq(FirstAvg, Zero) THEN response.body.trend.change_percentage = Fixed(FALSE, 0)
    ELSE NumEq(Reported,
               NumMul(NumDiv(MathAbs(NumSub(SecondAvg, FirstAvg)), FirstAvg),
                      NumFromInt(100)))

\* C6 as amended: the change percentage reported is |(second - first) / first
\* * 100| written with two decimals (toFixed(2)) when the first average is not
\* zero, and 0.00 when it is zero, whatever the second half.
C6_ChangeRounded ==
  (TrendResponse /\ SeriesLen >= 2) =>
    response.body.trend.change_percentage =
      (IF NumEq(FirstAvg, Zero) THEN Fixed(FALSE, 0)
       ELSE ToFixed2(MathAbs(NumMul(NumDiv(NumSub(SecondAvg, FirstAvg), FirstAvg),
                                    NumFromInt(100)))))

\* a first half of zeros before a second half above zero: improving, by 0.00
C6_Witness ==
  /\ TrendResponse /\ SeriesLen >= 2
  /\ NumEq(FirstAvg, Zero)
  /\ NumGreater(SecondAvg, Zero)
  /\ response.body.trend.direction = "improving"
  /\ response.body.trend.change_percentage = Fixed(FALSE, 0)

\* C25: the trend of a series of one observation has direction 'stable' and
\* change percentage 0.
C25_SingleObservation ==
  (TrendResponse /\ SeriesLen = 1) =>
    /\ response.body.trend.direction = "stable"
    /\ NumEq(Reported, Zero)

(***************************************************************************)
(* Properties of the risk-indicator ranking.  FirstSeen lists the keys     *)
(* with a truthy value in the order they first occur: by row of the        *)
(* series, and within a row by entry.                                      *)
(***************************************************************************)
Contains(seq, x) == \E i \in 1..Len(seq) : seq[i] = x

RECURSIVE SeenEntries(_, _)
SeenEntries(seen, entries) ==
  IF entries = <<>> THEN seen
  ELSE SeenEntries(IF Truthy(Head(entries)[2]) /\ ~Contains(seen, Head(entries)[1])
                   THEN Append(seen, Head(entries)[1]) ELSE seen,
                   Tail(entries))

RECURSIVE SeenRows(_, _)
SeenRows(seen, i) ==
  IF i > SeriesLen THEN seen
  ELSE SeenRows(SeenEntries(seen, SeriesRow(i).risk_indicators), i + 1)

FirstSeen == SeenRows(<<>>, 1)

\* the number of rows of the series in which the key has a truthy value
TruthyCount(key) ==
  Cardinality({i \in 1..SeriesLen :
                 \E j \in 1..Len(SeriesRow(i).risk_indicators) :
                   /\ SeriesRow(i).risk_indicators[j][1] = key
                   /\ Truthy(SeriesRow(i).risk_indicators[j][2])})

\* the place of the p-th key seen: after the keys counted more often and the
\* keys counted as often and seen before it
Rank(p) ==
  1 + Cardinality({q \in 1..Len(FirstSeen) :
                     \/ TruthyCount(FirstSeen[q]) > TruthyCount(FirstSeen[p])
                     \/ /\ TruthyCount(FirstSeen[q]) = TruthyCount(FirstSeen[p])
                        /\ q < p})

\* no two rows of the series are of one instant
Chronological ==
  \A i \in 1..SeriesLen - 1 : SeriesRow(i).created_at < SeriesRow(i + 1).created_at

\* C7: common_risk_indicators gives each key with the number of results of
\* the window in which its value is truthy, in non-increasing order of that
\* number, keys of equal number in the order of their first occurrence in the
\* series of ascending time, cut to at most 5 entries.
C7_RiskRanking ==
  (TrendResponse /\ Chronological) =>
    /\ Len(response.body.common_risk_indicators) =
         (IF Len(FirstSeen) > 5 THEN 5 ELSE Len(FirstSeen))
    /\ \A p \in 1..Len(FirstSeen) :
         Rank(p) <= 5 =>
           /\ response.body.common_risk_indicators[Rank(p)].indicator = FirstSeen[p]
           /\ response.body.common_risk_indicators[Rank(p)].frequency =
                TruthyCount(FirstSeen[p])

Ranking == response.body.common_risk_indicators

\* C21: each entry of common_risk_indicators has a percentage above 0 and at
\* most 100, a frequency from 1 to the number of results of the window that
\* is the number of results in which the indicator is truthy, and as
\* percentage frequency / (number of results of the window) * 100, the
\* results without risk indicators counted in.
C21_IndicatorShare ==
  TrendResponse =>
    \A i \in 1..Len(Ranking) :
      /\ NumGreater(Ranking[i].percentage, Zero)
      /\ ~NumGreater(Ranking[i].percentage, Hundred)
      /\ Ranking[i].frequency \in 1..SeriesLen
      /\ Ranking[i].frequency = TruthyCount(Ranking[i].indicator)
      /\ Ranking[i].percentage =
           NumMul(NumDiv(NumFromInt(Ranking[i].frequency), NumFromInt(SeriesLen)), Hundred)

(***************************************************************************)
(* Properties of the wellness plan.  They are stated of the plan a GET     *)
(* generates, from the tables as they are: the window is the ten latest    *)
(* rows of detection_results, the snapshot the last row of                 *)
(* cognitive_scores.                                                       *)
(***************************************************************************)
NewPlan ==
  /\ request.op = "GET wellness-plan"
  /\ response.status = 200
  /\ response.body.is_new

PlanIds ==
  [i \in 1..Len(response.body.plan.activities) |-> response.body.plan.activities[i].id]

InPlan(id) == \E i \in 1..Len(PlanIds) : PlanIds[i] = id

InWindow(i) == i > Len(detection_results) - 10

\* some result of the type, among those of the index set, is below 0.7
LowIn(type, indices) ==
  \E i \in indices :
    /\ detection_results[i].detection_type = type
    /\ detection_results[i].confidence_score < 7

Windowed == {i \in 1..Len(detection_results) : InWindow(i)}

Withdrawn(row) ==
  /\ row.detection_type = "behavioral"
  /\ \E k \in 1..Len(row.risk_indicators) :
       /\ row.risk_indicators[k][1] = "social_withdrawal"
       /\ row.risk_indicators[k][2] \notin {"false", "0", "null", "\"\""}

LatestSnapshot ==
  IF cognitive_scores = <<>> THEN [score |-> 75, areas_of_concern |-> <<>>]
  ELSE cognitive_scores[Len(cognitive_scores)]

\* C8: a generated plan holds facial-exercises exactly when a facial result of
\* the ten latest results is below 0.7; speech-practice and word-retrieval,
\* both or neither, exactly when a speech result of them is below 0.7;
\* memory-training exactly when the latest score (75 by default) is below 70
\* or its areas of concern hold 'memory'; social-engagement exactly when a
\* behavioral result of them has a truthy social_withdrawal.
C8_ActivityGates ==
  NewPlan =>
    /\ InPlan("facial-exercises") <=> LowIn("facial", Windowed)
    /\ InPlan("speech-practice") <=> LowIn("speech", Windowed)
    /\ InPlan("word-retrieval") <=> LowIn("speech", Windowed)
    /\ InPlan("memory-training") <=>
         \/ LatestSnapshot.score < 70
         \/ Contains(LatestSnapshot.areas_of_concern, "memory")
    /\ InPlan("social-engagement") <=> \E i \in Windowed : Withdrawn(detection_results[i])

\* a plan generated when a low facial result has left the window, a low
\* speech result is in it, and the latest score is 70 or more with 'memory'
\* among its areas
C8_Witness ==
  /\ NewPlan
  /\ LowIn("facial", 1..Len(detection_results))
  /\ ~InPlan("facial-exercises")
  /\ InPlan("speech-practice")
  /\ LatestSnapshot.score >= 70
  /\ InPlan("memory-training")

ActivityOrder ==
  <<"daily-check-in", "mindfulness-practice", "facial-exercises", "speech-practice",
    "word-retrieval", "memory-training", "social-engagement", "physical-exercise">>

\* C9: the activities of a generated plan are daily-check-in, then
\* mindfulness-practice, then those included of facial-exercises,
\* speech-practice, word-retrieval, memory-training, social-engagement in that
\* order, then physical-exercise last; no id appears twice.
C9_ActivityOrder ==
  NewPlan =>
    /\ PlanIds = SelectSeq(ActivityOrder, InPlan)
    /\ PlanIds[1] = "daily-check-in"
    /\ PlanIds[2] = "mindfulness-practice"
    /\ PlanIds[Len(PlanIds)] = "physical-exercise"

\* a generated plan that holds all eight activities
C9_Witness == NewPlan /\ Len(PlanIds) = Len(ActivityOrder)

\* C10: every id the weekly distribution of a generated plan lists is the id
\* of an activity of that plan.
C10_WeeklyDistribution ==
  NewPlan =>
    \A day \in DOMAIN response.body.plan.schedule.weekly_distribution :
      \A i \in 1..Len(response.body.plan.schedule.weekly_distribution[day]) :
        InPlan(response.body.plan.schedule.weekly_distribution[day][i])

(***************************************************************************)
(* Properties of the plan fetch.  A fetch is a step of the GET handler of  *)
(* an authenticated user in which no query fails; what it must do is       *)
(* stated from the table before the step: Newest is the active plan        *)
(* created last.                                                           *)
(***************************************************************************)
Fetch == GET_WellnessPlan(TRUE, "none")

ActivePlans == {i \in 1..Len(wellness_plans) : wellness_plans[i].is_active}

Newest == CHOOSE i \in ActivePlans : \A j \in ActivePlans : j <= i

Fresh == ActivePlans # {} /\ now - wellness_plans[Newest].created_at < 7

\* the response of a fetch, after the step
Served == response'.body

\* what C11 requires of a step
C11_FetchStep ==
  Fetch =>
    /\ response'.status = 200
    /\ IF Fresh
       THEN /\ Served.plan = wellness_plans[Newest]
            /\ ~Served.is_new
            /\ Served.days_remaining = 7 - (now - wellness_plans[Newest].created_at)
            /\ wellness_plans' = wellness_plans
       ELSE /\ Len(wellness_plans') = Len(wellness_plans) + 1
            /\ SubSeq(wellness_plans', 1, Len(wellness_plans)) = wellness_plans
            /\ wellness_plans'[Len(wellness_plans')].is_active
            /\ wellness_plans'[Len(wellness_plans')].created_at = now
            /\ Served.plan = wellness_plans'[Len(wellness_plans')]
            /\ Served.is_new
            /\ Served.days_remaining = 7

\* C11: a fetch that finds the newest active plan less than 7 days old
\* returns that plan with is_new = false and days_remaining = 7 - its age in
\* days and leaves the table as it is; any other fetch adds one active plan to
\* the table and returns it with is_new = true and days_remaining = 7.
C11_PlanFetch == [][C11_FetchStep]_vars

\* a plan generated on day 7 in place of the plan of day 0 is served again a
\* day later
C11_Witness ==
  /\ request.op = "GET wellness-plan"
  /\ response.status = 200
  /\ ~response.body.is_new
  /\ response.body.days_remaining = 6
  /\ Len(wellness_plans) = 2

\* the last response is a plan that is a row of the table
PlanServed ==
  /\ request.op = "GET wellness-plan"
  /\ response.status = 200
  /\ \E i \in 1..Len(wellness_plans) : wellness_plans[i] = response.body.plan

\* what C12 requires of a step
C12_RefetchStep ==
  (PlanServed /\ now - response.body.plan.created_at < 7 /\ Fetch) =>
    /\ response'.status = 200
    /\ ~Served.is_new
    /\ Served.plan = response.body.plan

\* C12: a fetch that follows the response of a fetch, with no detection
\* submitted in between and less than 7 days after the created_at of the
\* stored plan that response carried, returns the same plan with
\* is_new = false.
C12_Idempotence == [][C12_RefetchStep]_vars

\* a stored plan served on the sixth day after its creation
C12_Witness ==
  /\ PlanServed
  /\ ~response.body.is_new
  /\ request.at - response.body.plan.created_at = 6

\* C13: at most one plan of the table is active, and exactly one once the
\* table holds a plan.
C13_OneActivePlan ==
  /\ Cardinality(ActivePlans) <= 1
  /\ Len(wellness_plans) > 0 => Cardinality(ActivePlans) = 1

\* no plan of the table is created after the request
NoLaterPlan == \A i \in 1..Len(wellness_plans) : wellness_plans[i].created_at <= request.at

\* C26: when no stored plan is created later than the time of the fetch, a
\* successful fetch returns days_remaining from 1 to 7, and 7 with a plan
\* that is new.
C26_DaysRemaining ==
  (request.op = "GET wellness-plan" /\ response.status = 200 /\ NoLaterPlan) =>
    /\ response.body.days_remaining \in 1..7
    /\ response.body.is_new => response.body.days_remaining = 7

\* the plan is served on the last day it is served
C26_Witness ==
  /\ request.op = "GET wellness-plan"
  /\ response.status = 200
  /\ NoLaterPlan
  /\ response.body.days_remaining = 1
  /\ request.at = now

(***************************************************************************)
(* Properties of the wearable readings.  A submission is a step of the     *)
(* POST handler of an authenticated user in which no database call fails;  *)
(* what it must write is stated from the value in tenths and the table     *)
(* before the step.                                                        *)
(***************************************************************************)
Saved == request.op = "POST wearable-data" /\ response.status = 200

\* the reading the step saved
Submitted == response'.body.data

\* the step is the submission of the reading it saved
Submission ==
  /\ Saved'
  /\ POST_WearableData(TRUE, Submitted.data_type, Submitted.value, "none",
                       request'.at % 24)

Columns == {"resting_heart_rate", "sleep_quality", "activity_level", "stress_level"}

Relevant == {"heart_rate", "sleep", "activity", "stress"}

MappedColumn(data_type) ==
  CASE data_type = "heart_rate" -> "resting_heart_rate"
    [] data_type = "sleep" -> "sleep_quality"
    [] data_type = "activity" -> "activity_level"
    [] data_type = "stress" -> "stress_level"

MappedValue(data_type, value) ==
  CASE data_type = "heart_rate" -> value
    [] data_type = "sleep" ->
         IF value >= 70 THEN "good" ELSE IF value >= 50 THEN "fair" ELSE "poor"
    [] data_type = "activity" ->
         IF value >= 100000 THEN "high" ELSE IF value >= 50000 THEN "moderate" ELSE "low"
    [] data_type = "stress" ->
         IF value <= 300 THEN "low" ELSE IF value <= 700 THEN "moderate" ELSE "high"

\* the rows of health_metrics that the step adds or changes
Written ==
  {i \in 1..Len(health_metrics') :
     i > Len(health_metrics) \/ health_metrics'[i] # health_metrics[i]}

\* the row the step must have written to: the last one after the step
Target == Len(health_metrics')

\* what C14 requires of a step
C14_MapStep ==
  Submission =>
    IF Submitted.data_type \in Relevant
    THEN /\ Len(health_metrics') > 0
         /\ health_metrics'[Target][MappedColumn(Submitted.data_type)] =
              <<MappedValue(Submitted.data_type, Submitted.value)>>
         /\ Written \subseteq {Target}
    ELSE health_metrics' = health_metrics

\* C14: a submission of heart_rate writes the value to resting_heart_rate;
\* of sleep, 'good' (value >= 7), 'fair' (5 <= value < 7) or 'poor' to
\* sleep_quality; of activity, 'high' (>= 10000), 'moderate' (>= 5000) or
\* 'low' to activity_level; of stress, 'low' (<= 30), 'moderate' (<= 70) or
\* 'high' to stress_level; it writes to no row but that one, and a
\* submission of any other data type leaves health_metrics as it is.
C14_MetricBuckets == [][C14_MapStep]_vars

\* a sleep of 5.0 hours was written as 'fair'
C14_Witness ==
  /\ Saved
  /\ response.body.data.data_type = "sleep"
  /\ response.body.data.value = 50
  /\ Len(health_metrics) > 0
  /\ health_metrics[Len(health_metrics)].sleep_quality = <<"fair">>

\* the calendar day of a time in hours
Day(t) == t \div 24

\* the latest row before the step is of the day of the step
SameDay ==
  /\ Len(health_metrics) > 0
  /\ Day(health_metrics[Len(health_metrics)].created_at) = Day(request'.at)

\* the latest row before the step, if any, is of an earlier day
EarlierDay ==
  \/ Len(health_metrics) = 0
  \/ Day(health_metrics[Len(health_metrics)].created_at) < Day(request'.at)

\* row has the mapped column set and no other
OnlyMapped(row, data_type) ==
  \A c \in Columns : (row[c] # <<>>) <=> (c = MappedColumn(data_type))

\* what C15 requires of a step
C15_FrameStep ==
  (Submission /\ Submitted.data_type \in Relevant) =>
    /\ EarlierDay =>
         /\ Len(health_metrics') = Len(health_metrics) + 1
         /\ SubSeq(health_metrics', 1, Len(health_metrics)) = health_metrics
         /\ OnlyMapped(health_metrics'[Target], Submitted.data_type)
         /\ health_metrics'[Target].created_at = request'.at
    /\ SameDay =>
         /\ Len(health_metrics') = Len(health_metrics)
         /\ \A i \in 1..Len(health_metrics) :
              \A field \in DOMAIN health_metrics[i] :
                (i = Target /\ field = MappedColumn(Submitted.data_type))
                  \/ health_metrics'[i][field] = health_metrics[i][field]

\* C15: a submission of a relevant data type, when health_metrics is empty or
\* its latest row is of an earlier day, appends a row with the mapped column
\* set and no other, and leaves the earlier rows as they are; when the latest
\* row is of the day of the submission, it changes the mapped column of that
\* row and nothing else in the table.
C15_Frame == [][C15_FrameStep]_vars

\* the row of the day was written twice and holds both columns, and the row
\* of the day before is as it was
C15_Witness ==
  /\ Saved
  /\ Len(health_metrics) = 2
  /\ health_metrics[1] = MetricsHistory[1]
  /\ health_metrics[2].sleep_quality # <<>>
  /\ health_metrics[2].stress_level # <<>>

\* C16: no two rows of health_metrics are of the same calendar day.
C16_OneRecordPerDay ==
  \A i, j \in 1..Len(health_metrics) :
    i # j => Day(health_metrics[i].created_at) # Day(health_metrics[j].created_at)

(***************************************************************************)
(* Properties of the failures of the database.                             *)
(***************************************************************************)
\* what C17 requires of a step
C17_PersistStep ==
  /\ PUT_CognitiveScore(TRUE, "score_insert") =>
       /\ ScoreResponse'
       /\ response'.body.cognitive_score = ScoreOfRows
       /\ cognitive_scores' = cognitive_scores
  /\ (GET_WellnessPlan(TRUE, "plan_insert") /\ ~Fresh) =>
       /\ NewPlan'
       /\ Served.days_remaining = 7
       /\ C8_ActivityGates'
       /\ C9_ActivityOrder'
       /\ wellness_plans' = wellness_plans

\* C17: a PUT whose insert of the snapshot fails still answers 200 with the
\* score computed from the rows, and a GET that generates a plan whose insert
\* fails still answers 200 with the plan generated from the tables, is_new =
\* true and days_remaining = 7.
C17_PersistFailure == [][C17_PersistStep]_vars

\* a plan of five activities or more was returned and none is stored
C17_Witness ==
  /\ NewPlan
  /\ Len(PlanIds) >= 5
  /\ wellness_plans = <<>>

\* the step is a submission of a relevant data type in which the read or the
\* write of health_metrics fails, and its response is the success response
FailedAndSaved ==
  /\ Saved'
  /\ Submitted.data_type \in Relevant
  /\ \E fault \in {"metrics_read", "metrics_write"} :
       POST_WearableData(TRUE, Submitted.data_type, Submitted.value, fault,
                         request'.at % 24)

\* what C18 requires of a step
C18_PropagateStep == ~FailedAndSaved

\* C18: a submission in which the read or the write of health_metrics fails
\* does not report success.
C18_Propagation == [][C18_PropagateStep]_vars

(***************************************************************************)
(* Properties of the stored detection results.                             *)
(***************************************************************************)
\* C19: every row of detection_results has a confidence_score in [0,1] (0 to
\* 10 tenths).
C19_ConfidenceRange ==
  \A i \in 1..Len(detection_results) :
    /\ detection_results[i].confidence_score >= 0
    /\ detection_results[i].confidence_score <= 10

(***************************************************************************)
(* Properties of the trend analysis of an empty window.  The window of a   *)
(* request is stated from the table: the rows of the type from the start   *)
(* of the time frame to now.                                               *)
(***************************************************************************)
InTrendWindow(type, start) ==
  {i \in 1..Len(detection_results) :
     /\ detection_results[i].detection_type = type
     /\ detection_results[i].created_at >= start
     /\ detection_results[i].created_at <= now}

\* the step answers a request for a trend over a time frame of the schema
TrendRequested ==
  /\ request'.op = "PATCH detection-results"
  /\ request'.timeframe \in Timeframes

\* the step answers it for the facial results since start
TrendStep(start) ==
  \E late \in BOOLEAN :
    \E days \in Lookback(request'.timeframe) :
      /\ start = now - days + (IF late THEN 1 ELSE 0)
      /\ PATCH_TrendAnalysis(TRUE, "facial", request'.timeframe, "none", days, late)

\* the starts a window of the request may have
Starts ==
  {now - days + late : days \in Lookback(request'.timeframe), late \in {0, 1}}

Analysed == response'.body

\* the result has no direction, no change percentage and no error, and its
\* data is the empty list
NoDataResult ==
  /\ response'.status = 200
  /\ "trend" \notin DOMAIN Analysed
  /\ "error" \notin DOMAIN Analysed
  /\ "data" \in DOMAIN Analysed
  /\ Analysed.data = <<>>

\* what C20 requires of a step
C20_EmptyRankingStep ==
  TrendRequested =>
    \A start \in Starts :
      (TrendStep(start) /\ InTrendWindow("facial", start) = {}) =>
        /\ NoDataResult
        /\ "common_risk_indicators" \in DOMAIN Analysed
        /\ Analysed.common_risk_indicators = <<>>

\* C20: the trend of an empty window is a result without direction,
\* change percentage or error, with an empty data list and an empty ranking
\* of risk indicators.
C20_EmptyRanking == [][C20_EmptyRankingStep]_vars

\* two submissions of different relevant data types have completed, both on
\* the day of the first row of health_metrics, which is older than they
BothCompleted ==
  /\ submissions = <<>>
  /\ Len(wearable_data) = 2
  /\ Len(health_metrics) > 0
  /\ now = Day(health_metrics[1].created_at)
  /\ \A i \in 1..2 :
       /\ wearable_data[i].data_type \in Relevant
       /\ health_metrics[1].created_at < wearable_data[i].created_at
  /\ wearable_data[1].data_type # wearable_data[2].data_type

\* C27: when two submissions of different relevant data types to a row of
\* health_metrics of the same day have both completed, in whatever order
\* their reads and writes came, the row holds the mapped value of each in its
\* column, and no other row is written.
C27_BothFieldsKept ==
  BothCompleted =>
    /\ Len(health_metrics) = 1
    /\ \A i \in 1..2 :
         health_metrics[1][MappedColumn(wearable_data[i].data_type)] =
           <<MappedValue(wearable_data[i].data_type, wearable_data[i].value)>>

\* the submission that was read first completes last: the other one was
\* processed in between
C27_Witness ==
  /\ BothCompleted
  /\ health_metrics[1].created_at = Timestamp(0, 0)
  /\ health_metrics[1].resting_heart_rate = <<725>>
  /\ response.body.data = wearable_data[1]

(***************************************************************************)
(* Properties of the activity progress.  What a step of the POST handler   *)
(* must do is stated from the request it answers and the tables before     *)
(* the step.                                                               *)
(***************************************************************************)
Recording(authed, userId, in, fault) ==
  POST_ActivityProgress(authed, userId, in[1], in[2], in[3], in[4], fault)

StoredPlans == {wellness_plans[i].id : i \in 1..Len(wellness_plans)}

\* a field is missing, the caller is not the user, or the user has no such
\* plan
Rejected(authed, userId, in) ==
  \/ userId = Missing \/ in[1] = NoPlan \/ in[2] = Missing
  \/ ~authed
  \/ in[1] \notin StoredPlans

\* one row is added, which is as the request says
OneAdded(in) ==
  /\ Len(activity_progress') = Len(activity_progress) + 1
  /\ SubSeq(activity_progress', 1, Len(activity_progress)) = activity_progress
  /\ activity_progress'[Len(activity_progress')].plan_id = in[1]
  /\ activity_progress'[Len(activity_progress')].activity_id = in[2]
  /\ activity_progress'[Len(activity_progress')].completed = in[3]
  /\ activity_progress'[Len(activity_progress')].notes = in[4]

\* what C22 requires of a step
C22_ProgressStep ==
  \A authed \in BOOLEAN, userId \in {User, Missing}, in \in ProgressInputs,
     fault \in ProgressFaults :
    ((authed => userId = User) /\ Recording(authed, userId, in, fault)) =>
      /\ wellness_plans' = wellness_plans
      /\ Rejected(authed, userId, in) =>
           /\ activity_progress' = activity_progress
           /\ response'.status # 200
      /\ (~Rejected(authed, userId, in) /\ fault = "none") =>
           /\ OneAdded(in)
           /\ response'.status = 200

\* C22: a POST of activity progress leaves every row of wellness_plans as it
\* is; it adds exactly one row to activity_progress, which holds the plan,
\* the activity, the completion and the notes of the request, and when a
\* field is missing, the caller is not the user or the user has no plan of
\* that id it adds no row and does not answer with success.
C22_ProgressFrame == [][C22_ProgressStep]_vars

\* progress is recorded for the second of two plans
C22_Witness ==
  /\ request.op = "POST wellness-plan"
  /\ response.status = 200
  /\ Len(wellness_plans) = 2
  /\ Len(activity_progress) = 2
  /\ activity_progress[2].plan_id = 2

(***************************************************************************)
(* Properties of the rate limit.  They are stated of the requests the      *)
(* middleware has answered: the windows of an identifier start with its    *)
(* first request and with each request that comes more than WINDOW_MS      *)
(* after the start of the window before.                                   *)
(***************************************************************************)
Identifiers == {admitted[i].identifier : i \in 1..Len(admitted)}

\* the requests of one identifier, in the order they were answered
RequestsOf(identifier) == SelectSeq(admitted, LAMBDA a : a.identifier = identifier)

\* the start of the window the i-th of the requests falls in
RECURSIVE WindowStart(_, _)
WindowStart(reqs, i) ==
  IF i = 1 THEN reqs[1].at
  ELSE IF reqs[i].at > WindowStart(reqs, i - 1) + WINDOW_MS THEN reqs[i].at
  ELSE WindowStart(reqs, i - 1)

\* the requests before the i-th, of its window, that went on to the handler
PassedBefore(reqs, i) ==
  {j \in 1..i - 1 : /\ WindowStart(reqs, j) = WindowStart(reqs, i)
                     /\ reqs[j].status = Continue.status}

\* no request goes on to the handler after MAX_REQUESTS of its window have:
\* it is answered 429
WindowsLimited ==
  \A identifier \in Identifiers :
    \A i \in 1..Len(RequestsOf(identifier)) :
      Cardinality(PassedBefore(RequestsOf(identifier), i)) >= MAX_REQUESTS =>
        RequestsOf(identifier)[i].status = TooManyRequests.status

\* the identifier of the request a step answers
Answered == admitted'[Len(admitted')].identifier

\* a request leaves the entries of the other identifiers as they are
OthersKept ==
  admitted' # admitted =>
    \A k \in (DOMAIN rateLimit \cup DOMAIN rateLimit') \ {Answered} :
      /\ k \in DOMAIN rateLimit
      /\ k \in DOMAIN rateLimit'
      /\ rateLimit'[k] = rateLimit[k]

\* C23: of the requests of one identifier in one window of WINDOW_MS
\* milliseconds at most MAX_REQUESTS go on to the endpoint handler, every
\* further one of the window is answered 429, and a request does not change
\* the counter of another identifier.
C23_RateLimit == []WindowsLimited /\ [][OthersKept]_vars

\* the request a step answers comes after the resetTime of the entry of its
\* identifier
AfterReset ==
  /\ admitted' # admitted
  /\ MapHas(rateLimit, Answered)
  /\ now > rateLimit[Answered].resetTime

\* what C24 requires of a step
C24_ResetStep ==
  AfterReset =>
    /\ response'.status # TooManyRequests.status
    /\ MapHas(rateLimit', Answered)
    /\ rateLimit'[Answered] = [count |-> 1, resetTime |-> now + WINDOW_MS]

\* C24: a request that comes after the resetTime stored for its identifier
\* is not answered 429, whatever the count stored, and starts a window of
\* WINDOW_MS milliseconds in which it is the first request counted.
C24_WindowReset == [][C24_ResetStep]_vars

(***************************************************************************)
(* Properties of the caregiver relationships.                              *)
(***************************************************************************)
\* the relationship that lets the user of the request read: of the user
\* whose readings are asked for, of the email of the caller, and active
HasActiveCaregiver ==
  \E i \in 1..Len(caregiver_relationships) :
    /\ caregiver_relationships[i].user_id = request.userId
    /\ caregiver_relationships[i].caregiver_email = Emails[request.user]
    /\ caregiver_relationships[i].status = "active"

\* the request answered last asks as one user for the readings of another
ReadsAnother ==
  /\ request.op = "GET wearable-data"
  /\ request.userId # Missing
  /\ request.user # request.userId

\* C28: a GET of the wearable readings of a user by another caller returns
\* them only if an active relationship of that user names the email of the
\* caller, and is answered 401 otherwise, after any invitations, updates and
\* deletions.
C28_CaregiverOnly ==
  ReadsAnother =>
    IF request.user # NoUser /\ HasActiveCaregiver
    THEN response.status \in {200, Unauthorized.status, 500}
    ELSE response = Unauthorized

\* the caregiver is given the readings of the user
C28_Witness ==
  /\ ReadsAnother
  /\ response.status = 200
  /\ Len(response.body.data) > 0
  /\ HasActiveCaregiver

\* the invited caregiver, who is not the user the invitation is of, accepts
\* the pending invitation `id` on the invite page
Accepting(caller, id) ==
  /\ acceptInvitation(caller, id)
  /\ RelationshipById(caregiver_relationships, id)[1].status = "pending"
  /\ RelationshipById(caregiver_relationships, id)[1].user_id # caller

\* what C29 requires of a step
C29_AcceptStep ==
  \A caller \in Users, id \in 1..MaxInvites :
    Accepting(caller, id) =>
      /\ response'.status = 200
      /\ RelationshipById(caregiver_relationships', id)[1].status = "active"

\* C29: when the invited caregiver accepts a pending invitation on the
\* invite page, the PATCH the page sends is accepted and the relationship
\* becomes active.
C29_InvitationAccepted == [][C29_AcceptStep]_vars

====
